---------------------------- MODULE Spec2Model ----------------------------
(***************************************************************************)
(* A model of the numeric core of rust-ui: rustml-core (Shape, Tensor),     *)
(* rustml-nn (Linear, CausalSelfAttention) and rustml-nlp (GptModel,        *)
(* TextGenerator).                                                          *)
(*                                                                          *)
(* f32 values are modelled as exact rationals <<n, d>> in lowest terms with *)
(* d > 0, extended by -inf = <<-1,0>>, +inf = <<1,0>> and NaN = <<0,0>>.    *)
(* Rounding is not modelled: the inputs are small integers, on which every  *)
(* f32 operation used here is exact, except softmax's division, which is    *)
(* kept as an exact quotient.  exp is the exact function 2^x on integers    *)
(* (strictly increasing, positive, exp(0) = 1, exp(-inf) = 0).              *)
(***************************************************************************)
EXTENDS Integers, Sequences, FiniteSets, TLC

VARIABLES shp, mm, lin, att, heap, gen, call

vars == <<shp, mm, lin, att, heap, gen, call>>

\* The value of a variable that the specification at hand does not use.
Idle == [phase |-> "idle"]

\* The variables of the stateful objects, for the specifications of single
\* calls, which keep their arguments and result in `call`.
objects == <<shp, mm, lin, att, heap, gen>>

NoObjects ==
    shp = Idle /\ mm = Idle /\ lin = Idle /\ att = Idle /\ heap = Idle /\ gen = Idle

(***************************************************************************)
(* Results: Rust's Result<T, E> / Option<T>.                                *)
(***************************************************************************)
NoVal == <<>>

Ok(v) == [ok |-> TRUE, val |-> v, err |-> "none"]

Err(e) == [ok |-> FALSE, val |-> NoVal, err |-> e]

\* `let x = e; K(x)`: e is evaluated once and K applied to its value.
Let(e, K(_)) == CHOOSE y \in {K(x) : x \in {e}} : TRUE

\* The `?` operator: continue with the value, or return the error.
Try(r, K(_)) == Let(r, LAMBDA x : IF x.ok THEN K(x.val) ELSE x)

\* Result::map_err / Option::ok_or_else with a fixed error.
MapErr(r, e) == IF r.ok THEN r ELSE Err(e)

(***************************************************************************)
(* f32 arithmetic.                                                          *)
(***************************************************************************)
Abs(x) == IF x < 0 THEN -x ELSE x

RECURSIVE GCD(_, _)
GCD(a, b) == IF b = 0 THEN a ELSE GCD(b, a % b)

Norm(n, d) == LET g == GCD(Abs(n), d) IN <<n \div g, d \div g>>

F(i) == <<i, 1>>

NegInf == <<-1, 0>>

PosInf == <<1, 0>>

NaN == <<0, 0>>

IsNaN(a) == a = NaN

IsInf(a) == a[2] = 0 /\ a[1] # 0

IsFinite(a) == a[2] > 0

Sign(a) == IF a[1] > 0 THEN 1 ELSE IF a[1] < 0 THEN -1 ELSE 0

Inf(s) == IF s >= 0 THEN PosInf ELSE NegInf

FNeg(a) == <<-a[1], a[2]>>

FAdd(a, b) ==
    IF IsNaN(a) \/ IsNaN(b) THEN NaN
    ELSE IF IsInf(a) THEN (IF IsInf(b) /\ a # b THEN NaN ELSE a)
    ELSE IF IsInf(b) THEN b
    ELSE Norm(a[1] * b[2] + b[1] * a[2], a[2] * b[2])

FSub(a, b) == FAdd(a, FNeg(b))

FMul(a, b) ==
    IF IsNaN(a) \/ IsNaN(b) THEN NaN
    ELSE IF IsInf(a) \/ IsInf(b)
         THEN (IF Sign(a) = 0 \/ Sign(b) = 0 THEN NaN ELSE Inf(Sign(a) * Sign(b)))
    ELSE Norm(a[1] * b[1], a[2] * b[2])

FDiv(a, b) ==
    IF IsNaN(a) \/ IsNaN(b) THEN NaN
    ELSE IF IsInf(a) THEN (IF IsInf(b) THEN NaN
                           ELSE Inf(Sign(a) * (IF Sign(b) < 0 THEN -1 ELSE 1)))
    ELSE IF IsInf(b) THEN F(0)
    ELSE IF b[1] = 0 THEN (IF a[1] = 0 THEN NaN ELSE Inf(Sign(a)))
    ELSE IF b[1] < 0 THEN Norm(-(a[1] * b[2]), a[2] * (-b[1]))
    ELSE Norm(a[1] * b[2], a[2] * b[1])

\* a > b on f32: false as soon as one side is NaN.
FGt(a, b) ==
    IF IsNaN(a) \/ IsNaN(b) THEN FALSE
    ELSE IF IsInf(a) \/ IsInf(b)
         THEN (IF a = b THEN FALSE
               ELSE IF a = PosInf \/ b = NegInf THEN TRUE ELSE FALSE)
    ELSE a[1] * b[2] > b[1] * a[2]

FLt(a, b) == FGt(b, a)

\* a != 0.0 on f32 (NaN != 0.0 is true).
FNonZero(a) == ~(IsFinite(a) /\ a[1] = 0)

RECURSIVE Pow2(_)
Pow2(k) == IF k = 0 THEN 1 ELSE 2 * Pow2(k - 1)

\* f32::exp, as 2^x; defined on the integers and the specials only, so that a
\* run that would need another value stops with an error instead of a guess.
FExp(a) ==
    CASE IsNaN(a) -> NaN
      [] a = NegInf -> F(0)
      [] a = PosInf -> PosInf
      [] IsFinite(a) /\ a[2] = 1 /\ a[1] <= 0 -> <<1, Pow2(-a[1])>>
      [] IsFinite(a) /\ a[2] = 1 /\ a[1] > 0 -> <<Pow2(a[1]), 1>>

\* (n as f32).sqrt() for a perfect square n.
SqrtNat(n) == CHOOSE r \in 0..n : r * r = n

(***************************************************************************)
(* Sequences.                                                               *)
(***************************************************************************)
RECURSIVE Product(_)
Product(s) == IF s = <<>> THEN 1 ELSE Head(s) * Product(Tail(s))

RECURSIVE SumNat(_)
SumNat(s) == IF s = <<>> THEN 0 ELSE Head(s) + SumNat(Tail(s))

Reverse(s) == [i \in 1..Len(s) |-> s[Len(s) + 1 - i]]

Max2(a, b) == IF a >= b THEN a ELSE b

Min2(a, b) == IF a <= b THEN a ELSE b

\* Vec::remove(i) and Vec::insert(i, x), 0-based as in the source.
RemoveAt(s, i) == [j \in 1..(Len(s) - 1) |-> IF j <= i THEN s[j] ELSE s[j + 1]]

InsertAt(s, i, x) ==
    [j \in 1..(Len(s) + 1) |-> IF j <= i THEN s[j] ELSE IF j = i + 1 THEN x ELSE s[j - 1]]

Swap(s, i, j) == [s EXCEPT ![i + 1] = s[j + 1], ![j + 1] = s[i + 1]]

\* All sequences over S of length n, and of length lo..hi.
RECURSIVE SeqsOfLen(_, _)
SeqsOfLen(S, n) ==
    IF n = 0 THEN {<<>>}
    ELSE {Append(s, x) : s \in SeqsOfLen(S, n - 1), x \in S}

SeqsUpTo(S, lo, hi) == UNION {SeqsOfLen(S, n) : n \in lo..hi}

(***************************************************************************)
(* Shape (shape.rs).  A shape is its dims vector.                           *)
(***************************************************************************)
Numel(dims) == Product(dims)

\* Shape::normalize_dim
NormalizeDim(dims, dim) ==
    LET ndim == Len(dims)
        normalized == IF dim < 0 THEN dim + ndim ELSE dim
    IN IF normalized >= 0 /\ normalized < ndim THEN Ok(normalized) ELSE Err("None")

\* The operands of iteration i of broadcast_with's loop: i counts from the
\* trailing dimension; a missing leading dimension reads as 1.
BroadcastDimMisaligned(dims, i) == IF i < Len(dims) THEN dims[i + 1] ELSE 1

BroadcastDim(dims, i) == IF i < Len(dims) THEN dims[Len(dims) - i] ELSE 1

RECURSIVE BroadcastLoop(_, _, _, _)
BroadcastLoop(self, other, i, result) ==
    IF i = Max2(Len(self), Len(other)) THEN Ok(Reverse(result))
    ELSE LET a == BroadcastDim(self, i)
             b == BroadcastDim(other, i)
         IN IF a = b THEN BroadcastLoop(self, other, i + 1, Append(result, a))
            ELSE IF a = 1 THEN BroadcastLoop(self, other, i + 1, Append(result, b))
            ELSE IF b = 1 THEN BroadcastLoop(self, other, i + 1, Append(result, a))
            ELSE Err("None")

\* Shape::broadcast_with
BroadcastWith(self, other) == BroadcastLoop(self, other, 0, <<>>)

(***************************************************************************)
(* Tensor (tensor.rs): data is the shared buffer (Arc<Vec<f32>>), shape the *)
(* dims, strides and offset the view.  Indices are 0-based as in the        *)
(* source; data[k + 1] is the buffer's element k.                           *)
(***************************************************************************)
\* Strides that grow from the first dimension (column-major).
ComputeStridesFromFront(shape) ==
    [i \in 1..Len(shape) |-> Product(SubSeq(shape, 1, i - 1))]

\* Tensor::compute_strides
ComputeStrides(shape) ==
    [i \in 1..Len(shape) |-> Product(SubSeq(shape, i + 1, Len(shape)))]

Tensor(data, shape) ==
    [data |-> data, shape |-> shape, strides |-> ComputeStrides(shape), offset |-> 0]

\* Tensor::from_vec
FromVec(data, shape) ==
    IF Len(data) # Numel(shape) THEN Err("ShapeMismatch") ELSE Ok(Tensor(data, shape))

Ndim(t) == Len(t.shape)

\* Tensor::full / zeros / ones
Full(shape, value) == Tensor([k \in 1..Numel(shape) |-> value], shape)

Zeros(shape) == Full(shape, F(0))

Ones(shape) == Full(shape, F(1))
\* A lower triangle without the diagonal.
TrilBelowDiagonal(size) ==
    Tensor([k \in 1..(size * size) |->
               IF (k - 1) % size < (k - 1) \div size THEN F(1) ELSE F(0)],
           <<size, size>>)

\* Tensor::tril
Tril(size) ==
    Tensor([k \in 1..(size * size) |->
               IF (k - 1) % size <= (k - 1) \div size THEN F(1) ELSE F(0)],
           <<size, size>>)

\* Tensor::is_contiguous
IsContiguous(t) == t.strides = ComputeStrides(t.shape) /\ t.offset = 0

\* The multi-index of the k-th element (k from 0) of a row-major walk of shape:
\* the order in which the recursive collect_* walks and TensorIterator visit it.
Unravel(shape, k) ==
    [i \in 1..Len(shape) |-> (k \div Product(SubSeq(shape, i + 1, Len(shape)))) % shape[i]]

RECURSIVE GetLoop(_, _, _, _)
GetLoop(t, indices, i, offset) ==
    IF i > Len(indices) THEN Ok(t.data[offset + 1])
    ELSE IF indices[i] >= t.shape[i] THEN Err("IndexOutOfBounds")
    ELSE GetLoop(t, indices, i + 1, offset + indices[i] * t.strides[i])

\* A get that reports a wrong number of indices as an index out of bounds.
GetCountAsBounds(t, indices) ==
    IF Len(indices) # Ndim(t) THEN Err("IndexOutOfBounds")
    ELSE GetLoop(t, indices, 1, t.offset)

\* Tensor::get
Get(t, indices) ==
    IF Len(indices) # Ndim(t) THEN Err("InvalidOperation")
    ELSE GetLoop(t, indices, 1, t.offset)

\* `if let Ok(val) = ... { result.push(val) }` over a sequence of results.
PushOk(rs) ==
    LET oks == SelectSeq(rs, LAMBDA r : r.ok)
    IN [i \in 1..Len(oks) |-> oks[i].val]

\* The elements before the first failure (`.ok()?` inside an iterator).
RECURSIVE TakeOk(_)
TakeOk(rs) ==
    IF rs = <<>> \/ ~Head(rs).ok THEN <<>> ELSE <<Head(rs).val>> \o TakeOk(Tail(rs))

\* Tensor::iter (TensorIterator)
Iter(t) == TakeOk([k \in 1..Numel(t.shape) |-> Get(t, Unravel(t.shape, k - 1))])

\* Tensor::to_vec
ToVec(t) ==
    IF IsContiguous(t) THEN SubSeq(t.data, t.offset + 1, t.offset + Numel(t.shape))
    ELSE Iter(t)

\* Tensor::contiguous
Contiguous(t) == IF IsContiguous(t) THEN t ELSE Tensor(Iter(t), t.shape)

\* Tensor::normalize_dim
TNormalizeDim(t, dim) ==
    LET r == NormalizeDim(t.shape, dim)
    IN IF r.ok THEN r ELSE Err("InvalidDimension")

\* Tensor::collect_slice
CollectSlice(t, slice_dim, start, end) ==
    LET walk == [t.shape EXCEPT ![slice_dim + 1] = end - start]
    IN PushOk([k \in 1..Numel(walk) |->
                  LET ix == Unravel(walk, k - 1)
                  IN Get(t, [ix EXCEPT ![slice_dim + 1] = @ + start])])

\* Tensor::slice
Slice(t, dim, start, end) ==
    LET d == TNormalizeDim(t, dim)
    IN IF ~d.ok THEN d
       ELSE IF start > end \/ end > t.shape[d.val + 1] THEN Err("InvalidSliceRange")
       ELSE FromVec(CollectSlice(t, d.val, start, end),
                    [t.shape EXCEPT ![d.val + 1] = end - start])

\* Tensor::collect_select
CollectSelect(t, select_dim, select_idx) ==
    LET walk == RemoveAt(t.shape, select_dim)
    IN PushOk([k \in 1..Numel(walk) |->
                  Get(t, InsertAt(Unravel(walk, k - 1), select_dim, select_idx))])

\* Tensor::select
Select(t, dim, index) ==
    LET d == TNormalizeDim(t, dim)
    IN IF ~d.ok THEN d
       ELSE IF index >= t.shape[d.val + 1] THEN Err("IndexOutOfBounds")
       ELSE FromVec(CollectSelect(t, d.val, index), RemoveAt(t.shape, d.val))

\* Tensor::collect_cat: the walk of the output shape; each index is served by
\* the first tensor whose range on cat_dim holds it.
RECURSIVE CatLookup(_, _, _, _, _)
CatLookup(tensors, cat_dim, indices, n, offset) ==
    IF n > Len(tensors) THEN Err("none")
    ELSE LET dim_size == tensors[n].shape[cat_dim + 1]
             cat_idx == indices[cat_dim + 1]
         IN IF cat_idx < offset + dim_size
            THEN Get(tensors[n], [indices EXCEPT ![cat_dim + 1] = cat_idx - offset])
            ELSE CatLookup(tensors, cat_dim, indices, n + 1, offset + dim_size)

CatTotal(tensors, dim_idx) ==
    SumNat([n \in 1..Len(tensors) |-> tensors[n].shape[dim_idx + 1]])

CollectCat(tensors, cat_dim) ==
    LET walk == [tensors[1].shape EXCEPT ![cat_dim + 1] = CatTotal(tensors, cat_dim)]
    IN PushOk([k \in 1..Numel(walk) |->
                  CatLookup(tensors, cat_dim, Unravel(walk, k - 1), 1, 0)])

\* Tensor::cat
Cat(tensors, dim) ==
    IF tensors = <<>> THEN Err("EmptyTensor")
    ELSE LET first == tensors[1]
             d == TNormalizeDim(first, dim)
         IN IF ~d.ok THEN d
            ELSE IF \E n \in 2..Len(tensors) :
                       \/ Ndim(tensors[n]) # Ndim(first)
                       \/ \E i \in 1..Ndim(first) :
                             i # d.val + 1 /\ first.shape[i] # tensors[n].shape[i]
                 THEN Err("ShapeMismatch")
            ELSE FromVec(CollectCat(tensors, d.val),
                         [first.shape EXCEPT ![d.val + 1] = CatTotal(tensors, d.val)])

\* Tensor::reshape: the buffer of self.contiguous() under the new shape.
Reshape(t, new_shape) ==
    IF Numel(new_shape) # Numel(t.shape) THEN Err("ShapeMismatch")
    ELSE Ok([data |-> Contiguous(t).data, shape |-> new_shape,
             strides |-> ComputeStrides(new_shape), offset |-> 0])

\* Tensor::unsqueeze
Unsqueeze(t, dim) ==
    LET ndim == Ndim(t) + 1
        normalized == IF dim < 0 THEN dim + ndim ELSE dim
    IN IF normalized < 0 \/ normalized > Ndim(t) THEN Err("InvalidDimension")
       ELSE Reshape(t, InsertAt(t.shape, normalized, 1))

\* Tensor::squeeze
Squeeze(t, dim) ==
    LET d == TNormalizeDim(t, dim)
    IN IF ~d.ok THEN d
       ELSE IF t.shape[d.val + 1] # 1 THEN Err("InvalidOperation")
       ELSE Reshape(t, RemoveAt(t.shape, d.val))

\* Tensor::collect_permute: perm[n + 1] is the source dimension of output
\* dimension n.
CollectPermute(t, perm) ==
    LET walk == [n \in 1..Len(perm) |-> t.shape[perm[n] + 1]]
    IN PushOk([k \in 1..Numel(walk) |->
                  LET new_indices == Unravel(walk, k - 1)
                  IN Get(t, [o \in 1..Ndim(t) |->
                                LET from == {n \in 1..Len(perm) : perm[n] + 1 = o}
                                IN IF from = {} THEN 0
                                   ELSE new_indices[CHOOSE n \in from : \A m \in from : m <= n]])])

\* Tensor::permute
Permute(t, dims) ==
    IF Len(dims) # Ndim(t) THEN Err("InvalidOperation")
    ELSE FromVec(CollectPermute(t, dims), [n \in 1..Len(dims) |-> t.shape[dims[n] + 1]])

\* A transpose that exchanges the two sizes and keeps the order of the data.
TransposeKeepingData(t, dim0, dim1) ==
    LET d0 == TNormalizeDim(t, dim0)
        d1 == TNormalizeDim(t, dim1)
    IN IF ~d0.ok THEN d0
       ELSE IF ~d1.ok THEN d1
       ELSE FromVec(ToVec(t), Swap(t.shape, d0.val, d1.val))

\* Tensor::transpose
Transpose(t, dim0, dim1) ==
    LET d0 == TNormalizeDim(t, dim0)
        d1 == TNormalizeDim(t, dim1)
    IN IF ~d0.ok THEN d0
       ELSE IF ~d1.ok THEN d1
       ELSE Permute(t, Swap([n \in 1..Ndim(t) |-> n - 1], d0.val, d1.val))

\* Tensor::t
TransposeLast(t) ==
    IF Ndim(t) < 2 THEN Err("InvalidOperation") ELSE Transpose(t, -2, -1)

\* Tensor::collect_broadcast
CollectBroadcast(t, target_shape) ==
    LET offset == Len(target_shape) - Ndim(t)
    IN PushOk([k \in 1..Numel(target_shape) |->
                  LET indices == Unravel(target_shape, k - 1)
                  IN Get(t, [i \in 1..Ndim(t) |->
                                IF t.shape[i] = 1 THEN 0 ELSE indices[offset + i]])])

\* Tensor::broadcast_to
BroadcastTo(t, shape) ==
    IF t.shape = shape THEN Ok(t)
    ELSE Try(MapErr(BroadcastWith(t.shape, shape), "BroadcastError"), LAMBDA broadcast_shape :
             IF broadcast_shape # shape THEN Err("BroadcastError")
             ELSE FromVec(CollectBroadcast(t, shape), shape))

\* zip of two iterators: as long as the shorter.
Zip2(xs, ys, Op(_, _)) == [k \in 1..Min2(Len(xs), Len(ys)) |-> Op(xs[k], ys[k])]

\* Tensor::binary_op
BinaryOp(a, b, Op(_, _)) ==
    Try(MapErr(BroadcastWith(a.shape, b.shape), "BroadcastError"), LAMBDA broadcast_shape :
    Try(BroadcastTo(a, broadcast_shape), LAMBDA self_broadcast :
    Try(BroadcastTo(b, broadcast_shape), LAMBDA other_broadcast :
        FromVec(Zip2(Iter(self_broadcast), Iter(other_broadcast), Op), broadcast_shape))))

Add(a, b) == BinaryOp(a, b, FAdd)

Sub(a, b) == BinaryOp(a, b, FSub)

Mul(a, b) == BinaryOp(a, b, FMul)

Div(a, b) == BinaryOp(a, b, FDiv)

\* Tensor::unary_op; the source unwraps from_vec, which cannot fail here.
UnaryOp(t, Op(_)) ==
    LET it == Iter(t) IN FromVec([k \in 1..Len(it) |-> Op(it[k])], t.shape).val

DivScalar(t, scalar) == UnaryOp(t, LAMBDA x : FDiv(x, scalar))

MulScalar(t, scalar) == UnaryOp(t, LAMBDA x : FMul(x, scalar))

Neg(t) == UnaryOp(t, FNeg)

Exp(t) == UnaryOp(t, FExp)
\* A masked_fill that replaces only where the mask is positive.
MaskedFillWherePositive(t, mask, value) ==
    Try(MapErr(BroadcastWith(t.shape, mask.shape), "BroadcastError"), LAMBDA broadcast_shape :
    Try(BroadcastTo(t, broadcast_shape), LAMBDA self_broadcast :
    Try(BroadcastTo(mask, broadcast_shape), LAMBDA mask_broadcast :
        FromVec(Zip2(Iter(self_broadcast), Iter(mask_broadcast),
                     LAMBDA v, m : IF FGt(m, F(0)) THEN value ELSE v),
                broadcast_shape))))

\* Tensor::masked_fill
MaskedFill(t, mask, value) ==
    Try(MapErr(BroadcastWith(t.shape, mask.shape), "BroadcastError"), LAMBDA broadcast_shape :
    Try(BroadcastTo(t, broadcast_shape), LAMBDA self_broadcast :
    Try(BroadcastTo(mask, broadcast_shape), LAMBDA mask_broadcast :
        FromVec(Zip2(Iter(self_broadcast), Iter(mask_broadcast),
                     LAMBDA v, m : IF FNonZero(m) THEN value ELSE v),
                broadcast_shape))))

\* The accumulation loop `for i in 0..dim_size` of collect_reduce at the
\* output position `indices`: an element whose get fails is skipped.
ReduceLoop(t, reduce_dim, dim_size, indices, init, Op(_, _)) ==
    LET acc[i \in 0..dim_size] ==
            IF i = 0 THEN init
            ELSE LET r == Get(t, InsertAt(indices, reduce_dim, i - 1))
                 IN IF r.ok THEN Op(acc[i - 1], r.val) ELSE acc[i - 1]
    IN acc[dim_size]

\* Tensor::reduce with collect_reduce
Reduce(t, dim, init, Op(_, _)) ==
    Try(TNormalizeDim(t, dim), LAMBDA dim_idx :
    Let(RemoveAt(t.shape, dim_idx), LAMBDA new_shape :
        FromVec([k \in 1..Numel(new_shape) |->
                    ReduceLoop(t, dim_idx, t.shape[dim_idx + 1],
                               Unravel(new_shape, k - 1), init, Op)],
                new_shape)))

\* Tensor::sum
Sum(t, dim) == Reduce(t, dim, F(0), FAdd)

\* The scan `for i in 0..dim_size` of collect_max: <<max_val, max_idx>>, a later
\* element replacing the maximum only when strictly greater.
RECURSIVE MaxLoop(_, _, _, _, _, _)
MaxLoop(t, reduce_dim, dim_size, indices, i, best) ==
    IF i = dim_size THEN best
    ELSE LET r == Get(t, InsertAt(indices, reduce_dim, i))
         IN MaxLoop(t, reduce_dim, dim_size, indices, i + 1,
                    IF r.ok /\ FGt(r.val, best[1]) THEN <<r.val, i>> ELSE best)

\* Tensor::max with collect_max: [values, indices]
Max(t, dim) ==
    Try(TNormalizeDim(t, dim), LAMBDA dim_idx :
    Let(RemoveAt(t.shape, dim_idx), LAMBDA new_shape :
    Let([k \in 1..Numel(new_shape) |->
            MaxLoop(t, dim_idx, t.shape[dim_idx + 1],
                    Unravel(new_shape, k - 1), 0, <<NegInf, 0>>)], LAMBDA best :
    Try(FromVec([k \in 1..Len(best) |-> best[k][1]], new_shape), LAMBDA values :
    Try(FromVec([k \in 1..Len(best) |-> F(best[k][2])], new_shape), LAMBDA indices :
        Ok([values |-> values, indices |-> indices]))))))

\* Tensor::argmax
Argmax(t, dim) == Try(Max(t, dim), LAMBDA m : Ok(m.indices))

\* Tensor::softmax
Softmax(t, dim) ==
    Try(TNormalizeDim(t, dim), LAMBDA dim_idx :
    Try(Max(t, dim), LAMBDA m :
    Try(Unsqueeze(m.values, dim), LAMBDA max_unsqueezed :
    Try(BroadcastTo(max_unsqueezed, t.shape), LAMBDA max_broadcast :
    Try(Sub(t, max_broadcast), LAMBDA shifted :
    Let(Exp(shifted), LAMBDA exp_vals :
    Try(Sum(exp_vals, dim), LAMBDA sum_exp :
    Try(Unsqueeze(sum_exp, dim), LAMBDA sum_unsqueezed :
    Try(BroadcastTo(sum_unsqueezed, t.shape), LAMBDA sum_broadcast :
        Div(exp_vals, sum_broadcast))))))))))

\* Result::unwrap_or
UnwrapOr(r, default) == IF r.ok THEN r.val ELSE default

\* matmul's index into one operand for batch position batch_indices, row/column
\* pair <<p, q>>: entry bi of batch_indices is reduced modulo the operand's
\* dimension bi while bi is below the operand's number of batch dimensions and is
\* 0 above it, the vector is padded with 0 to the operand's batch rank, and the
\* two matrix indices are pushed.
MatMulIndex(shape, batch_indices, p, q) ==
    LET n_batch == Len(shape) - 2
        mapped == [bi \in 1..Len(batch_indices) |->
                      IF bi - 1 < n_batch THEN batch_indices[bi] % shape[bi] ELSE 0]
        padded == mapped \o [x \in 1..Max2(0, n_batch - Len(mapped)) |-> 0]
    IN padded \o <<p, q>>

\* The two element reads of one step l of matmul's inner loop.
MatMulReads(a, b, batch_indices, i, j, l) ==
    <<Get(a, MatMulIndex(a.shape, batch_indices, i, l)),
      Get(b, MatMulIndex(b.shape, batch_indices, l, j))>>

\* The inner loop `for l in 0..k` of matmul.
RECURSIVE MatMulDot(_, _, _, _, _, _, _, _)
MatMulDot(a, b, batch_indices, i, j, l, k, sum) ==
    IF l = k THEN sum
    ELSE LET rd == MatMulReads(a, b, batch_indices, i, j, l)
         IN MatMulDot(a, b, batch_indices, i, j, l + 1, k,
                      FAdd(sum, FMul(UnwrapOr(rd[1], F(0)), UnwrapOr(rd[2], F(0)))))

\* The batch shape of matmul's result.
MatMulBatchShape(a, b) ==
    LET self_batch == SubSeq(a.shape, 1, Ndim(a) - 2)
        other_batch == SubSeq(b.shape, 1, Ndim(b) - 2)
    IN IF self_batch = <<>> /\ other_batch = <<>> THEN Ok(<<>>)
       ELSE LET r == BroadcastWith(self_batch, other_batch)
            IN IF r.ok THEN r ELSE Err("BroadcastError")

\* Tensor::matmul
MatMul(a, b) ==
    IF Ndim(a) < 2 \/ Ndim(b) < 2 THEN Err("InvalidOperation")
    ELSE LET m == a.shape[Ndim(a) - 1]
             k == a.shape[Ndim(a)]
             k2 == b.shape[Ndim(b) - 1]
             n == b.shape[Ndim(b)]
             batch_shape == MatMulBatchShape(a, b)
         IN IF k # k2 THEN Err("MatmulDimensionMismatch")
            ELSE IF ~batch_shape.ok THEN batch_shape
            ELSE LET batch_numel == Max2(Product(batch_shape.val), 1)
                     walk == <<batch_numel, m, n>>
                 IN FromVec([e \in 1..Numel(walk) |->
                                LET ix == Unravel(walk, e - 1)
                                IN MatMulDot(a, b, Unravel(batch_shape.val, ix[1]),
                                             ix[2], ix[3], 0, k, F(0))],
                            batch_shape.val \o <<m, n>>)

(***************************************************************************)
(* Shape::broadcast_with on every pair of shapes within the bounds.         *)
(***************************************************************************)
MaxShapeRank == 3

MaxShapeDim == 3

Shapes == SeqsUpTo(0..MaxShapeDim, 0, MaxShapeRank)

InitShape ==
    /\ shp \in [phase : {"args"}, a : Shapes, b : Shapes, result : {Err("unset")}]
    /\ mm = Idle /\ lin = Idle /\ att = Idle /\ heap = Idle /\ gen = Idle /\ call = Idle

CallBroadcastWith ==
    /\ shp.phase = "args"
    /\ shp' = [shp EXCEPT !.phase = "done", !.result = BroadcastWith(shp.a, shp.b)]
    /\ UNCHANGED <<mm, lin, att, heap, gen, call>>

NextShape == CallBroadcastWith

SpecShape == InitShape /\ [][NextShape]_vars

\* A shape padded with leading 1s to rank r.
PadLeft(dims, r) == [i \in 1..r |-> IF i <= r - Len(dims) THEN 1 ELSE dims[i - (r - Len(dims))]]

BroadcastRef(a, b) ==
    LET r == Max2(Len(a), Len(b))
        x == PadLeft(a, r)
        y == PadLeft(b, r)
    IN IF \E i \in 1..r : x[i] # y[i] /\ x[i] # 1 /\ y[i] # 1 THEN Err("None")
       ELSE Ok([i \in 1..r |-> IF x[i] = y[i] THEN x[i] ELSE IF x[i] = 1 THEN y[i] ELSE x[i]])

\* C10: broadcast_with aligns the shapes from the trailing dimension, reads a
\* missing leading dimension as 1, gives per aligned pair the common size or the
\* size that is not 1, fails when a pair differs with neither size 1, and its
\* result has rank max(ndim(a), ndim(b)); [2,1,4] with [3,4] is [2,3,4] and
\* [2,3] with [4,3] fails.
BroadcastWithMatchesRule ==
    /\ shp.phase = "done" =>
          /\ shp.result = BroadcastRef(shp.a, shp.b)
          /\ shp.result.ok => Len(shp.result.val) = Max2(Len(shp.a), Len(shp.b))
    /\ BroadcastWith(<<2, 1, 4>>, <<3, 4>>) = Ok(<<2, 3, 4>>)
    /\ ~BroadcastWith(<<2, 3>>, <<4, 3>>).ok

\* A call on shapes of different rank that broadcast, one stretching a 1.
BroadcastWithWitness ==
    /\ shp.phase = "done"
    /\ Len(shp.a) > Len(shp.b) /\ Len(shp.b) > 0
    /\ shp.result.ok
    /\ \E i \in 1..Len(shp.a) : shp.a[i] = 1 /\ shp.result.val[i] > 1

(***************************************************************************)
(* Tensor::matmul on operands of every shape within the bounds.             *)
(***************************************************************************)
MaxMatRank == 3

MaxMatDim == 2

\* Test data: element k of the buffer is 1 + (k + seed) mod 3, never 0.
Pattern(shape, seed) ==
    Tensor([k \in 1..Numel(shape) |-> F(1 + ((k + seed) % 3))], shape)

MatShapes == SeqsUpTo(1..MaxMatDim, 1, MaxMatRank)

InitMatMul ==
    /\ \E sa \in MatShapes, sb \in MatShapes, seed \in {0, 1} :
          mm = [phase |-> "args", a |-> Pattern(sa, seed), b |-> Pattern(sb, seed + 1),
                result |-> Err("unset")]
    /\ shp = Idle /\ lin = Idle /\ att = Idle /\ heap = Idle /\ gen = Idle /\ call = Idle

CallMatMul ==
    /\ mm.phase = "args"
    /\ mm' = [mm EXCEPT !.phase = "done", !.result = MatMul(mm.a, mm.b)]
    /\ UNCHANGED <<shp, lin, att, heap, gen, call>>

NextMatMul == CallMatMul

SpecMatMul == InitMatMul /\ [][NextMatMul]_vars

\* The element of t at a valid multi-index, by the stride formula.
At(t, indices) ==
    t.data[t.offset + 1 + SumNat([i \in 1..Len(indices) |-> indices[i] * t.strides[i]])]

\* The index into an operand for result batch index c: the operand's batch
\* dimensions are aligned with the trailing ones of c; a dimension of size 1
\* is read at 0.
BatchRef(shape, c) ==
    LET nb == Len(shape) - 2
    IN [p \in 1..nb |-> IF shape[p] = 1 THEN 0 ELSE c[Len(c) - nb + p]]

DotRef(a, b, c, i, j) ==
    LET k == a.shape[Ndim(a)]
        term[l \in 0..k] ==
            IF l = 0 THEN F(0)
            ELSE FAdd(term[l - 1],
                      FMul(At(a, BatchRef(a.shape, c) \o <<i, l - 1>>),
                           At(b, BatchRef(b.shape, c) \o <<l - 1, j>>)))
    IN term[k]

MatMulApplies(a, b) ==
    /\ Ndim(a) >= 2 /\ Ndim(b) >= 2
    /\ a.shape[Ndim(a)] = b.shape[Ndim(b) - 1]
    /\ BroadcastRef(SubSeq(a.shape, 1, Ndim(a) - 2), SubSeq(b.shape, 1, Ndim(b) - 2)).ok

MatMulRefShape(a, b) ==
    BroadcastRef(SubSeq(a.shape, 1, Ndim(a) - 2), SubSeq(b.shape, 1, Ndim(b) - 2)).val
        \o <<a.shape[Ndim(a) - 1], b.shape[Ndim(b)]>>

\* result is the matrix product of a and b, batch dimensions broadcast.
IsMatMulOf(result, a, b) ==
    /\ result.ok
    /\ result.val.shape = MatMulRefShape(a, b)
    /\ Len(result.val.data) = Numel(MatMulRefShape(a, b))
    /\ \A e \in 1..Numel(MatMulRefShape(a, b)) :
          LET ix == Unravel(MatMulRefShape(a, b), e - 1)
              r == Len(ix)
          IN result.val.data[e] = DotRef(a, b, SubSeq(ix, 1, r - 2), ix[r - 1], ix[r])

\* C6: for operands of rank >= 2 with matching inner dimension and broadcastable
\* batch dimensions, matmul returns shape batch ++ [m, n] and every element is the
\* sum over l of A[c.., i, l] * B[c.., l, j], also when the ranks differ; and
\* [1,2;3,4] @ [5,6;7,8] = [19,22;43,50].
MatMulIsBatchedProduct ==
    /\ (mm.phase = "done" /\ MatMulApplies(mm.a, mm.b)) => IsMatMulOf(mm.result, mm.a, mm.b)
    /\ MatMul(Tensor(<<F(1), F(2), F(3), F(4)>>, <<2, 2>>),
              Tensor(<<F(5), F(6), F(7), F(8)>>, <<2, 2>>)).val.data
          = <<F(19), F(22), F(43), F(50)>>

\* What matmul does compute: the claimed product when both operands have the
\* same rank.
MatMulSameRankIsProduct ==
    (mm.phase = "done" /\ MatMulApplies(mm.a, mm.b) /\ Ndim(mm.a) = Ndim(mm.b))
        => IsMatMulOf(mm.result, mm.a, mm.b)

\* Some element read inside matmul's loops fails.
MatMulReadFails(a, b) ==
    /\ Ndim(a) >= 2 /\ Ndim(b) >= 2
    /\ a.shape[Ndim(a)] = b.shape[Ndim(b) - 1]
    /\ MatMulBatchShape(a, b).ok
    /\ LET bs == MatMulBatchShape(a, b).val
       IN \E bi \in 0..(Max2(Product(bs), 1) - 1), i \in 0..(a.shape[Ndim(a) - 1] - 1),
             j \in 0..(b.shape[Ndim(b)] - 1), l \in 0..(a.shape[Ndim(a)] - 1) :
             LET rd == MatMulReads(a, b, Unravel(bs, bi), i, j, l)
             IN ~rd[1].ok \/ ~rd[2].ok

\* C8: no operation swallows an internal failure: when an element read inside
\* matmul fails, matmul returns an error instead of putting 0.0 in its place.
MatMulSurfacesReadFailure ==
    (mm.phase = "done" /\ MatMulReadFails(mm.a, mm.b)) => ~mm.result.ok

(***************************************************************************)
(* Linear::forward                                                          *)
(***************************************************************************)
None == [some |-> FALSE, val |-> NoVal]

Some(v) == [some |-> TRUE, val |-> v]

LinearFromWeights(weight, bias) ==
    IF Ndim(weight) # 2 THEN Err("InvalidConfig")
    ELSE IF bias.some /\ bias.val.shape # <<weight.shape[1]>> THEN Err("ShapeMismatch")
    ELSE Ok([weight |-> weight, bias |-> bias,
             in_features |-> weight.shape[2], out_features |-> weight.shape[1]])

LinearForward(self, x) ==
    LET weight_t == TransposeLast(self.weight)
    IN IF ~weight_t.ok THEN weight_t
       ELSE LET out == MatMul(x, weight_t.val)
            IN IF ~out.ok THEN out
               ELSE IF self.bias.some THEN Add(out.val, self.bias.val)
               ELSE out

MaxFeatures == 2

MaxLeadRank == 2

LeadShapes == SeqsUpTo(1..MaxMatDim, 1, MaxLeadRank)

InitLinear ==
    /\ \E nin \in 1..MaxFeatures, nout \in 1..MaxFeatures, lead \in LeadShapes,
          seed \in {0, 1}, with_bias \in BOOLEAN :
          lin = [phase |-> "args",
                 layer |-> LinearFromWeights(
                               Pattern(<<nout, nin>>, seed),
                               IF with_bias THEN Some(Pattern(<<nout>>, seed + 1)) ELSE None).val,
                 x |-> Pattern(lead \o <<nin>>, seed + 2),
                 result |-> Err("unset")]
    /\ shp = Idle /\ mm = Idle /\ att = Idle /\ heap = Idle /\ gen = Idle /\ call = Idle

CallLinearForward ==
    /\ lin.phase = "args"
    /\ lin' = [lin EXCEPT !.phase = "done", !.result = LinearForward(lin.layer, lin.x)]
    /\ UNCHANGED <<shp, mm, att, heap, gen, call>>

NextLinear == CallLinearForward

SpecLinear == InitLinear /\ [][NextLinear]_vars

\* y[lead.., o] = sum over i of x[lead.., i] * W[o, i] (+ b[o]).
LinearRef(self, x, lead, o) ==
    LET term[i \in 0..self.in_features] ==
            IF i = 0 THEN F(0)
            ELSE FAdd(term[i - 1],
                      FMul(At(x, lead \o <<i - 1>>), At(self.weight, <<o, i - 1>>)))
    IN IF self.bias.some THEN FAdd(term[self.in_features], At(self.bias.val, <<o>>))
       ELSE term[self.in_features]

IsLinearOf(result, self, x) ==
    LET shape == SubSeq(x.shape, 1, Ndim(x) - 1) \o <<self.out_features>>
    IN /\ result.ok
       /\ result.val.shape = shape
       /\ ToVec(result.val) =
             [e \in 1..Numel(shape) |->
                 LET ix == Unravel(shape, e - 1)
                 IN LinearRef(self, x, SubSeq(ix, 1, Len(ix) - 1), ix[Len(ix)])]

\* C7: for every input of shape [..., in_features] of rank 2 or higher,
\* Linear::forward returns shape [..., out_features] with
\* y[.., o] = sum_i x[.., i] * W[o, i] + b[o] (no b term when bias is None).
LinearComputesAffineMap ==
    (lin.phase = "done" /\ Ndim(lin.x) >= 2) => IsLinearOf(lin.result, lin.layer, lin.x)

\* What Linear::forward does compute: the affine map on rank-2 inputs.
LinearRank2IsAffineMap ==
    (lin.phase = "done" /\ Ndim(lin.x) = 2) => IsLinearOf(lin.result, lin.layer, lin.x)

(***************************************************************************)
(* Tensors as handles onto reference-counted buffers (data: Arc<Vec<f32>>). *)
(* heap.bufs are the buffers, heap.tensors the live tensors, each naming    *)
(* its buffer. An operation reads its operands through View and pushes its  *)
(* result: onto a new buffer (Arc::new) or onto the operand's (Arc clone).  *)
(***************************************************************************)
MaxTensors == 3

HeapShapes == {<<2>>, <<2, 2>>}

ReshapeTargets == {<<2>>, <<2, 1>>, <<4>>, <<2, 2>>}

BroadcastTargets == {<<2>>, <<2, 2>>, <<1, 2>>}

Handle(buf, t) == [buf |-> buf, shape |-> t.shape, strides |-> t.strides, offset |-> t.offset]

View(h, i) ==
    [data |-> h.bufs[h.tensors[i].buf], shape |-> h.tensors[i].shape,
     strides |-> h.tensors[i].strides, offset |-> h.tensors[i].offset]

\* The result owns a new buffer.
ArcNew(h, t) ==
    [h EXCEPT !.bufs = Append(@, t.data),
              !.tensors = Append(@, Handle(Len(h.bufs) + 1, t))]

\* The result shares the buffer of tensor i.
ArcClone(h, i, t) == [h EXCEPT !.tensors = Append(@, Handle(h.tensors[i].buf, t))]

\* An operation that builds its result with from_vec; a failed one builds nothing.
HeapFromVec(h, r) == IF r.ok THEN ArcNew(h, r.val) ELSE h

\* A unary operation that overwrites its operand's buffer instead of allocating.
HeapUnaryInPlace(h, i) ==
    [h EXCEPT !.bufs[h.tensors[i].buf] = Neg(View(h, i)).data,
              !.tensors = Append(@, h.tensors[i])]

HeapUnary(h, i) == ArcNew(h, Neg(View(h, i)))

HeapClone(h, i) == ArcClone(h, i, View(h, i))

HeapContiguous(h, i) ==
    IF IsContiguous(View(h, i)) THEN HeapClone(h, i)
    ELSE ArcNew(h, Contiguous(View(h, i)))

\* reshape keeps the buffer of self.contiguous(): the operand's own buffer when
\* the operand is contiguous. unsqueeze and squeeze end in reshape.
HeapReshape(h, i, r) ==
    IF ~r.ok THEN h
    ELSE IF IsContiguous(View(h, i)) THEN ArcClone(h, i, r.val)
    ELSE ArcNew(h, r.val)

HeapBroadcastTo(h, i, shape) ==
    IF View(h, i).shape = shape THEN HeapClone(h, i)
    ELSE HeapFromVec(h, BroadcastTo(View(h, i), shape))

HeapMax(h, i, dim) ==
    LET r == Max(View(h, i), dim)
    IN IF r.ok THEN ArcNew(ArcNew(h, r.val.values), r.val.indices) ELSE h

InitHeap ==
    /\ \E shape \in HeapShapes :
          heap = [phase |-> "run", bufs |-> <<Pattern(shape, 0).data>>,
                  tensors |-> <<Handle(1, Pattern(shape, 0))>>, last |-> "from_vec"]
    /\ shp = Idle /\ mm = Idle /\ lin = Idle /\ att = Idle /\ gen = Idle /\ call = Idle

Live == 1..Len(heap.tensors)

Room(n) == heap.phase = "run" /\ Len(heap.tensors) + n <= MaxTensors

Did(op, h) ==
    /\ heap' = [h EXCEPT !.last = op]
    /\ UNCHANGED <<shp, mm, lin, att, gen, call>>

TensorClone ==
    /\ Room(1)
    /\ \E i \in Live : Did("clone", HeapClone(heap, i))

TensorContiguous ==
    /\ Room(1)
    /\ \E i \in Live : Did("contiguous", HeapContiguous(heap, i))

TensorReshape ==
    /\ Room(1)
    /\ \E i \in Live, new_shape \in ReshapeTargets :
          Did("reshape", HeapReshape(heap, i, Reshape(View(heap, i), new_shape)))

TensorUnsqueeze ==
    /\ Room(1)
    /\ \E i \in Live, dim \in {0, -1} :
          Did("unsqueeze", HeapReshape(heap, i, Unsqueeze(View(heap, i), dim)))

TensorSqueeze ==
    /\ Room(1)
    /\ \E i \in Live, dim \in {0, -1} :
          Did("squeeze", HeapReshape(heap, i, Squeeze(View(heap, i), dim)))

TensorTranspose ==
    /\ Room(1)
    /\ \E i \in Live : Did("transpose", HeapFromVec(heap, Transpose(View(heap, i), 0, -1)))

TensorBroadcastTo ==
    /\ Room(1)
    /\ \E i \in Live, shape \in BroadcastTargets :
          Did("broadcast_to", HeapBroadcastTo(heap, i, shape))

TensorSlice ==
    /\ Room(1)
    /\ \E i \in Live, dim \in {0, -1} :
          Did("slice", HeapFromVec(heap, Slice(View(heap, i), dim, 1, 2)))

TensorSelect ==
    /\ Room(1)
    /\ \E i \in Live, index \in {0, 1} :
          Did("select", HeapFromVec(heap, Select(View(heap, i), 0, index)))

TensorCat ==
    /\ Room(1)
    /\ \E i \in Live, j \in Live :
          Did("cat", HeapFromVec(heap, Cat(<<View(heap, i), View(heap, j)>>, 0)))

TensorMaskedFill ==
    /\ Room(1)
    /\ \E i \in Live, j \in Live :
          Did("masked_fill", HeapFromVec(heap, MaskedFill(View(heap, i), View(heap, j), NegInf)))

TensorUnary ==
    /\ Room(1)
    /\ \E i \in Live : Did("neg", HeapUnary(heap, i))

TensorBinary ==
    /\ Room(1)
    /\ \E i \in Live, j \in Live :
          \/ Did("add", HeapFromVec(heap, Add(View(heap, i), View(heap, j))))
          \/ Did("mul", HeapFromVec(heap, Mul(View(heap, i), View(heap, j))))

TensorSum ==
    /\ Room(1)
    /\ \E i \in Live, dim \in {0, -1} :
          Did("sum", HeapFromVec(heap, Sum(View(heap, i), dim)))

TensorMax ==
    /\ Room(2)
    /\ \E i \in Live : Did("max", HeapMax(heap, i, -1))

TensorMatMul ==
    /\ Room(1)
    /\ \E i \in Live, j \in Live :
          Did("matmul", HeapFromVec(heap, MatMul(View(heap, i), View(heap, j))))

NextHeap ==
    \/ TensorClone \/ TensorContiguous \/ TensorReshape \/ TensorUnsqueeze
    \/ TensorSqueeze \/ TensorTranspose \/ TensorBroadcastTo \/ TensorSlice
    \/ TensorSelect \/ TensorCat \/ TensorMaskedFill \/ TensorUnary
    \/ TensorBinary \/ TensorSum \/ TensorMax \/ TensorMatMul

SpecHeap == InitHeap /\ [][NextHeap]_vars

\* C9: no tensor operation (elementwise, structural, reshape, reduction, matmul,
\* clone) changes the elements, shape, strides or offset of a tensor that existed
\* before it, also when that tensor shares its buffer with the operand.
BuffersNeverMutated ==
    [][(heap.phase = "run" /\ heap'.phase = "run") =>
          /\ Len(heap'.tensors) >= Len(heap.tensors)
          /\ \A i \in 1..Len(heap.tensors) : View(heap', i) = View(heap, i)]_vars

\* Two live tensors of different shape share one buffer and an elementwise
\* operation has just run on the heap that holds them.
SharedBufferOperated ==
    /\ heap.phase = "run"
    /\ heap.last \in {"neg", "add", "mul"}
    /\ \E i \in Live, j \in Live :
          /\ i < j /\ j < Len(heap.tensors)
          /\ heap.tensors[i].buf = heap.tensors[j].buf
          /\ heap.tensors[i].shape # heap.tensors[j].shape

(***************************************************************************)
(* CausalSelfAttention                                                      *)
(***************************************************************************)
\* A mask that hides nothing.
CreateOpenMask(seq_len) == Zeros(<<seq_len, seq_len>>)

CreateCausalMask(seq_len) == Sub(Ones(<<seq_len, seq_len>>), Tril(seq_len)).val

AttentionFromWeights(c_attn_weight, c_attn_bias, c_proj_weight, c_proj_bias, n_head) ==
    Try(LinearFromWeights(c_attn_weight, c_attn_bias), LAMBDA c_attn :
    Try(LinearFromWeights(c_proj_weight, c_proj_bias), LAMBDA c_proj :
    Ok([c_attn |-> c_attn, c_proj |-> c_proj, n_head |-> n_head,
        n_embd |-> c_proj_weight.shape[1]])))

\* [B, T, C] -> [B, H, T, C/H]
SplitHeads(t, batch_size, seq_len, n_head, head_dim) ==
    Try(Reshape(t, <<batch_size, seq_len, n_head, head_dim>>), LAMBDA r : Transpose(r, 1, 2))

\* The forward pass, keeping the attention weights next to the output.
AttentionTrace(self, x) ==
    IF Ndim(x) # 3 THEN Err("ShapeMismatch")
    ELSE LET batch_size == x.shape[1]
             seq_len == x.shape[2]
             n_embd == x.shape[3]
             head_dim == n_embd \div self.n_head
             scale == F(SqrtNat(head_dim))
         IN Try(LinearForward(self.c_attn, x), LAMBDA qkv :
            Try(Slice(qkv, -1, 0, n_embd), LAMBDA q0 :
            Try(Slice(qkv, -1, n_embd, 2 * n_embd), LAMBDA k0 :
            Try(Slice(qkv, -1, 2 * n_embd, 3 * n_embd), LAMBDA v0 :
            Try(SplitHeads(q0, batch_size, seq_len, self.n_head, head_dim), LAMBDA q :
            Try(SplitHeads(k0, batch_size, seq_len, self.n_head, head_dim), LAMBDA k :
            Try(SplitHeads(v0, batch_size, seq_len, self.n_head, head_dim), LAMBDA v :
            Try(TransposeLast(k), LAMBDA kt :
            Try(MatMul(q, kt), LAMBDA qk :
            Try(MaskedFill(DivScalar(qk, scale), CreateCausalMask(seq_len), NegInf), LAMBDA scores :
            Try(Softmax(scores, -1), LAMBDA attn :
            Try(MatMul(attn, v), LAMBDA av :
            Try(Transpose(av, 1, 2), LAMBDA avt :
            Try(Reshape(avt, <<batch_size, seq_len, n_embd>>), LAMBDA merged :
            Try(LinearForward(self.c_proj, merged), LAMBDA out :
            Ok([attn |-> attn, out |-> out]))))))))))))))))

CausalSelfAttentionForward(self, x) ==
    Try(AttentionTrace(self, x), LAMBDA r : Ok(r.out))

MaxSeqLen == 3

MaxBatch == 2

\* (n_embd, n_head) with an integral sqrt(head_dim)
AttentionSizes == {<<1, 1>>, <<2, 2>>}

OptionalBias(n, b) == IF b = 0 THEN None ELSE Some(Pattern(<<n>>, b))

\* x with 1 added to every element at a position after `cut`.
PerturbAfter(x, cut) ==
    [x EXCEPT !.data = [k \in 1..Len(x.data) |->
        IF Unravel(x.shape, k - 1)[2] > cut THEN FAdd(x.data[k], F(1)) ELSE x.data[k]]]

InitAttention ==
    /\ \E size \in AttentionSizes, b \in 0..2, batch \in 1..MaxBatch, t \in 1..MaxSeqLen,
          seed \in {0, 1} :
          \E cut \in 0..(t - 1) :
             LET x == Pattern(<<batch, t, size[1]>>, seed)
             IN att = [phase |-> "args",
                       layer |-> AttentionFromWeights(
                                     Pattern(<<3 * size[1], size[1]>>, seed),
                                     OptionalBias(3 * size[1], b),
                                     Pattern(<<size[1], size[1]>>, seed + 1),
                                     OptionalBias(size[1], b), size[2]).val,
                       x1 |-> x, x2 |-> PerturbAfter(x, cut), cut |-> cut,
                       y1 |-> Err("unset"), y2 |-> Err("unset")]
    /\ shp = Idle /\ mm = Idle /\ lin = Idle /\ heap = Idle /\ gen = Idle /\ call = Idle

CallAttentionForward ==
    /\ att.phase = "args"
    /\ att' = [att EXCEPT !.phase = "done",
                          !.y1 = AttentionTrace(att.layer, att.x1),
                          !.y2 = AttentionTrace(att.layer, att.x2)]
    /\ UNCHANGED <<shp, mm, lin, heap, gen, call>>

NextAttention == CallAttentionForward

SpecAttention == InitAttention /\ [][NextAttention]_vars

\* Every weight above the diagonal of attn [B, H, T, T] is 0.
UpperWeightsZero(attn) ==
    \A b \in 0..(attn.shape[1] - 1), h \in 0..(attn.shape[2] - 1),
       i \in 0..(attn.shape[3] - 1), j \in 0..(attn.shape[4] - 1) :
          i < j => Get(attn, <<b, h, i, j>>) = Ok(F(0))

\* C5: CausalSelfAttention::forward is causal: every attention weight attn[i][j]
\* with i < j is 0 after masked_fill(-inf) and softmax, and two inputs that agree
\* on positions 0..i and differ only after i give the same output at positions 0..i.
AttentionIsCausal ==
    att.phase = "done" =>
        /\ att.y1.ok /\ att.y2.ok
        /\ UpperWeightsZero(att.y1.val.attn) /\ UpperWeightsZero(att.y2.val.attn)
        /\ att.y1.val.out.shape = att.x1.shape
        /\ \A b \in 0..(att.x1.shape[1] - 1), i \in 0..att.cut, c \in 0..(att.x1.shape[3] - 1) :
              /\ Get(att.y1.val.out, <<b, i, c>>).ok
              /\ Get(att.y1.val.out, <<b, i, c>>) = Get(att.y2.val.out, <<b, i, c>>)

\* Two inputs that differ after position cut have been run, and position
\* cut + 1 exists and puts non-zero weight on the earlier positions.
AttentionRanOnDivergingInputs ==
    /\ att.phase = "done"
    /\ att.x1 # att.x2
    /\ att.y1.ok /\ att.y2.ok
    /\ att.cut + 1 < att.x1.shape[2]
    /\ FGt(Get(att.y1.val.attn, <<0, 0, att.cut + 1, 0>>).val, F(0))
    /\ Get(att.y1.val.attn, <<0, 0, 0, att.cut + 1>>) = Ok(F(0))

(***************************************************************************)
(* Embedding, LayerNorm and GptModel::forward. The model instances have     *)
(* n_layer = 0 (no transformer blocks), so forward is the two embeddings,   *)
(* the final layer norm and the projection onto the vocabulary.             *)
(***************************************************************************)
\* `x as usize` / `x as u32` on an f32: truncation toward zero, negative values
\* and NaN give 0.
AsUnsigned(x) ==
    CASE IsNaN(x) -> 0
      [] x = NegInf -> 0
      [] IsFinite(x) /\ x[1] < 0 -> 0
      [] IsFinite(x) /\ x[1] >= 0 -> x[1] \div x[2]

\* f32::ceil on finite values
FCeil(x) == F(-((-x[1]) \div x[2]))

\* f32::sqrt, on the squares of rationals
FSqrt(x) == <<SqrtNat(x[1]), SqrtNat(x[2])>>

Arange(start, end, step) ==
    IF step = F(0) THEN Err("InvalidOperation")
    ELSE LET n == AsUnsigned(FCeil(FDiv(FSub(end, start), step)))
         IN Ok(Tensor([i \in 1..n |-> FAdd(start, FMul(F(i - 1), step))], <<n>>))

AddScalar(t, scalar) == UnaryOp(t, LAMBDA x : FAdd(x, scalar))

Sqrt(t) == UnaryOp(t, FSqrt)

Mean(t, dim) ==
    Try(TNormalizeDim(t, dim), LAMBDA dim_idx :
    Try(Sum(t, dim), LAMBDA sum : Ok(DivScalar(sum, F(t.shape[dim_idx + 1])))))

Var(t, dim) ==
    Try(Mean(t, dim), LAMBDA mean :
    Try(Unsqueeze(mean, dim), LAMBDA mean_unsqueezed :
    Try(BroadcastTo(mean_unsqueezed, t.shape), LAMBDA mean_broadcast :
    Try(Sub(t, mean_broadcast), LAMBDA diff :
    Try(Mul(diff, diff), LAMBDA sq_diff : Mean(sq_diff, dim))))))

EmbeddingFromWeights(weight) ==
    IF Ndim(weight) # 2 THEN Err("InvalidConfig")
    ELSE Ok([weight |-> weight, num_embeddings |-> weight.shape[1],
             embedding_dim |-> weight.shape[2]])

\* The gather loop: the rows of the first n indices, or the first error.
RECURSIVE EmbeddingGather(_, _, _)
EmbeddingGather(self, idxs, n) ==
    IF n = 0 THEN Ok(<<>>)
    ELSE Try(EmbeddingGather(self, idxs, n - 1), LAMBDA output_data :
         LET idx == AsUnsigned(idxs[n])
         IN IF idx >= self.num_embeddings THEN Err("InvalidConfig")
            ELSE Try(Select(self.weight, 0, idx), LAMBDA embedding :
                 Ok(output_data \o Iter(embedding))))

EmbeddingForward(self, indices) ==
    Try(EmbeddingGather(self, Iter(indices), Len(Iter(indices))), LAMBDA output_data :
        FromVec(output_data, indices.shape \o <<self.embedding_dim>>))

LayerNormFromWeights(weight, bias, eps) ==
    IF weight.shape # bias.shape THEN Err("ShapeMismatch")
    ELSE IF Ndim(weight) # 1 THEN Err("InvalidConfig")
    ELSE Ok([weight |-> weight, bias |-> bias, normalized_shape |-> weight.shape[1],
             eps |-> eps])

LayerNormForward(self, x) ==
    IF x.shape = <<>> \/ x.shape[Len(x.shape)] # self.normalized_shape
    THEN Err("ShapeMismatch")
    ELSE Try(Mean(x, -1), LAMBDA mean :
         Try(Var(x, -1), LAMBDA var :
         Try(Unsqueeze(mean, -1), LAMBDA mean_u :
         Try(BroadcastTo(mean_u, x.shape), LAMBDA mean_broadcast :
         Try(Unsqueeze(var, -1), LAMBDA var_u :
         Try(BroadcastTo(var_u, x.shape), LAMBDA var_broadcast :
         Try(Sub(x, mean_broadcast), LAMBDA x_centered :
         Try(Div(x_centered, Sqrt(AddScalar(var_broadcast, self.eps))), LAMBDA normalized :
         Try(BroadcastTo(self.weight, x.shape), LAMBDA gamma :
         Try(Mul(normalized, gamma), LAMBDA scaled :
         Try(BroadcastTo(self.bias, x.shape), LAMBDA beta :
             Add(scaled, beta))))))))))))

\* GptModel::from_weights with n_layer = 0
GptFromWeights(config, wte_weight, wpe_weight, ln_f_weight, ln_f_bias) ==
    Try(EmbeddingFromWeights(wte_weight), LAMBDA wte :
    Try(EmbeddingFromWeights(wpe_weight), LAMBDA wpe :
    Try(LayerNormFromWeights(ln_f_weight, ln_f_bias, config.layer_norm_eps), LAMBDA ln_f :
        Ok([config |-> config, wte |-> wte, wpe |-> wpe, ln_f |-> ln_f]))))

\* A forward pass that also rejects a sequence of exactly n_positions tokens.
GptForwardStrict(self, input_ids) ==
    LET shape == input_ids.shape
        seq_len == shape[Len(shape)]
    IN IF seq_len >= self.config.n_positions THEN Err("ModelError")
       ELSE Try(Arange(F(0), F(seq_len), F(1)), LAMBDA arange :
            Try(IF Len(shape) = 2
                THEN Try(Unsqueeze(arange, 0), LAMBDA u : BroadcastTo(u, shape))
                ELSE Ok(arange), LAMBDA position_ids :
            Try(EmbeddingForward(self.wte, input_ids), LAMBDA token_embeds :
            Try(EmbeddingForward(self.wpe, position_ids), LAMBDA position_embeds :
            Try(Add(token_embeds, position_embeds), LAMBDA embeds :
            Try(LayerNormForward(self.ln_f, embeds), LAMBDA hidden_states :
            Try(TransposeLast(self.wte.weight), LAMBDA wte_t :
                MatMul(hidden_states, wte_t))))))))

GptForward(self, input_ids) ==
    LET shape == input_ids.shape
        seq_len == shape[Len(shape)]
    IN IF seq_len > self.config.n_positions THEN Err("ModelError")
       ELSE Try(Arange(F(0), F(seq_len), F(1)), LAMBDA arange :
            Try(IF Len(shape) = 2
                THEN Try(Unsqueeze(arange, 0), LAMBDA u : BroadcastTo(u, shape))
                ELSE Ok(arange), LAMBDA position_ids :
            Try(EmbeddingForward(self.wte, input_ids), LAMBDA token_embeds :
            Try(EmbeddingForward(self.wpe, position_ids), LAMBDA position_embeds :
            Try(Add(token_embeds, position_embeds), LAMBDA embeds :
            Try(LayerNormForward(self.ln_f, embeds), LAMBDA hidden_states :
            Try(TransposeLast(self.wte.weight), LAMBDA wte_t :
                MatMul(hidden_states, wte_t))))))))

MaxSequenceLength(self) == self.config.n_positions

(***************************************************************************)
(* TextGenerator: sampling helpers                                          *)
(***************************************************************************)
\* probs.iter().enumerate(): pairs <<index, value>>
Enumerate(t) == [i \in 1..Len(Iter(t)) |-> <<i - 1, Iter(t)[i]>>]

\* sort_by(|a, b| b.1.partial_cmp(&a.1)): stable, descending by value.
SortDescending(indexed) ==
    LET sorted[n \in 0..Len(indexed)] ==
            IF n = 0 THEN <<>>
            ELSE LET e == indexed[n]
                     before == Cardinality({i \in 1..(n - 1) : ~FLt(sorted[n - 1][i][2], e[2])})
                 IN InsertAt(sorted[n - 1], before, e)
    IN sorted[Len(indexed)]

\* A vector of zeros with the first `count` entries of `sorted` written back.
KeepFirst(sorted, count, vocab_size) ==
    [i \in 1..vocab_size |->
        IF \E j \in 1..Min2(count, Len(sorted)) : sorted[j][1] = i - 1
        THEN (CHOOSE e \in {sorted[j] : j \in 1..Min2(count, Len(sorted))} : e[1] = i - 1)[2]
        ELSE F(0)]

\* A top-k filter that keeps k entries even where the vector is shorter, and
\* one entry where k is 0.
TopKFilterAtLeastOne(probs, k) ==
    LET vocab_size == probs.shape[1]
    IN FromVec(KeepFirst(SortDescending(Enumerate(probs)), Max2(k, 1), vocab_size),
               <<vocab_size>>)

TopKFilter(probs, k) ==
    LET vocab_size == probs.shape[1]
    IN FromVec(KeepFirst(SortDescending(Enumerate(probs)), Min2(k, vocab_size), vocab_size),
               <<vocab_size>>)

\* A top-p filter that leaves out the entry that takes the sum over p.
TopPFilterBelow(probs, p) ==
    LET vocab_size == probs.shape[1]
        indexed == SortDescending(Enumerate(probs))
        cumulative[i \in 0..Len(indexed)] ==
            IF i = 0 THEN F(0) ELSE FAdd(cumulative[i - 1], indexed[i][2])
        over == {i \in 1..Len(indexed) : FGt(cumulative[i], p)}
        cutoff_idx == IF over = {} THEN vocab_size
                      ELSE (CHOOSE i \in over : \A j \in over : i <= j) - 1
    IN FromVec(KeepFirst(indexed, cutoff_idx, vocab_size), <<vocab_size>>)

TopPFilter(probs, p) ==
    LET vocab_size == probs.shape[1]
        indexed == SortDescending(Enumerate(probs))
        cumulative[i \in 0..Len(indexed)] ==
            IF i = 0 THEN F(0) ELSE FAdd(cumulative[i - 1], indexed[i][2])
        over == {i \in 1..Len(indexed) : FGt(cumulative[i], p)}
        cutoff_idx == IF over = {} THEN vocab_size
                      ELSE CHOOSE i \in over : \A j \in over : i <= j
    IN FromVec(KeepFirst(indexed, cutoff_idx, vocab_size), <<vocab_size>>)

\* The index of the first entry at which the running sum exceeds r.
SampleFromProbs(probs, r) ==
    LET ps == Iter(probs)
        cumulative[i \in 0..Len(ps)] ==
            IF i = 0 THEN F(0) ELSE FAdd(cumulative[i - 1], ps[i])
        hit == {i \in 1..Len(ps) : FLt(r, cumulative[i])}
    IN IF hit = {} THEN Numel(probs.shape) - 1
       ELSE (CHOOSE i \in hit : \A j \in hit : i <= j) - 1

FSum(xs) ==
    LET acc[i \in 0..Len(xs)] == IF i = 0 THEN F(0) ELSE FAdd(acc[i - 1], xs[i])
    IN acc[Len(xs)]

\* The body of sample's loop for batch row b with the random draw r.
SampleRow(logits, config, b, r) ==
    Try(Select(logits, 0, b), LAMBDA batch_logits :
    Try(Softmax(IF config.temperature # F(1)
                THEN DivScalar(batch_logits, config.temperature)
                ELSE batch_logits, -1), LAMBDA probs0 :
    Try(IF config.top_k.some THEN TopKFilter(probs0, config.top_k.val) ELSE Ok(probs0),
        LAMBDA probs1 :
    Try(IF config.top_p.some THEN TopPFilter(probs1, config.top_p.val) ELSE Ok(probs1),
        LAMBDA probs2 :
        LET sum == FSum(Iter(probs2))
            probs == IF FGt(sum, F(0)) THEN DivScalar(probs2, sum) ELSE probs2
        IN Ok(F(SampleFromProbs(probs, r)))))))

RECURSIVE SampleRows(_, _, _, _)
SampleRows(logits, config, rs, n) ==
    IF n = 0 THEN Ok(<<>>)
    ELSE Try(SampleRows(logits, config, rs, n - 1), LAMBDA result :
         Try(SampleRow(logits, config, n - 1, rs[n]), LAMBDA token :
             Ok(Append(result, token))))

\* sample: rs[b + 1] is the value the rng returns for batch row b.
Sample(logits, config, rs) ==
    LET batch_size == logits.shape[1]
    IN Try(SampleRows(logits, config, rs, batch_size), LAMBDA result :
           FromVec(result, <<batch_size>>))

\* The loops over b and t of apply_repetition_penalty, flattened: step n
\* handles b = (n - 1) / seq_len, t = (n - 1) % seq_len.
RECURSIVE PenaltyLoop(_, _, _, _)
PenaltyLoop(logits, generated_ids, penalty, n) ==
    IF n = 0 THEN Ok(ToVec(logits))
    ELSE Try(PenaltyLoop(logits, generated_ids, penalty, n - 1), LAMBDA penalized_data :
         LET vocab_size == logits.shape[2]
             seq_len == generated_ids.shape[2]
             b == (n - 1) \div seq_len
             t == (n - 1) % seq_len
         IN Try(Get(generated_ids, <<b, t>>), LAMBDA id :
            LET token_id == AsUnsigned(id)
                idx == b * vocab_size + token_id
                logit == penalized_data[idx + 1]
            IN IF token_id < vocab_size
               THEN Ok([penalized_data EXCEPT ![idx + 1] =
                           IF FGt(logit, F(0)) THEN FDiv(logit, penalty)
                           ELSE FMul(logit, penalty)])
               ELSE Ok(penalized_data)))

ApplyRepetitionPenalty(logits, generated_ids, penalty) ==
    Try(PenaltyLoop(logits, generated_ids, penalty,
                    logits.shape[1] * generated_ids.shape[2]), LAMBDA penalized_data :
        FromVec(penalized_data, logits.shape))

(***************************************************************************)
(* TextGenerator::generate as a process: GenBegin is the prologue, GenStep  *)
(* one pass through the body of `for _ in 0..max_new_tokens`, GenExhausted  *)
(* the end of the range, GenReturn the epilogue. GenAgain starts a second   *)
(* call with the same model, input and config. gen.fed logs the sequence    *)
(* length of every model input handed to forward, gen.picks the token       *)
(* selected for row 0 in every pass, gen.draws the values taken from rng.   *)
(***************************************************************************)
MaxNewTokens == 2

MaxPositions == 3

\* The values the rng can return.
Draws == {F(0), <<1, 2>>}

Ids(tokens, shape) == Tensor([i \in 1..Len(tokens) |-> F(tokens[i])], shape)

\* Prompts [seq] and [batch, seq]; token 2 is outside the vocabulary.
Prompts ==
    {Ids(<<0>>, <<1>>), Ids(<<0, 1, 1>>, <<3>>), Ids(<<2>>, <<1>>),
     Ids(<<0, 1>>, <<1, 2>>), Ids(<<1, 0>>, <<2, 1>>)}

Models ==
    {GptFromWeights([vocab_size |-> 2, n_positions |-> p, n_embd |-> 1, n_layer |-> 0,
                     n_head |-> 1, layer_norm_eps |-> <<1, 4>>],
                    Pattern(<<2, 1>>, 0), Pattern(<<p, 1>>, 1),
                    Pattern(<<1>>, 0), Pattern(<<1>>, 1)).val :
        p \in 1..MaxPositions}

\* None of an Option<usize> or Option<u32>; val is not read.
NoneId == [some |-> FALSE, val |-> 0]

\* None of an Option<f32>; val is not read.
NoneF32 == [some |-> FALSE, val |-> F(0)]

EosChoices == {NoneId, Some(0), Some(1)}

GenerationConfig(max_new_tokens, do_sample, temperature, top_k, top_p, penalty, eos) ==
    [max_new_tokens |-> max_new_tokens, temperature |-> temperature, top_k |-> top_k,
     top_p |-> top_p, do_sample |-> do_sample, repetition_penalty |-> penalty,
     eos_token_id |-> eos, pad_token_id |-> eos]

GreedyConfigs ==
    {GenerationConfig(n, FALSE, F(1), NoneId, NoneF32, F(1), eos) :
        n \in 0..MaxNewTokens, eos \in EosChoices}
    \cup {GenerationConfig(n, FALSE, F(1), NoneId, NoneF32, F(2), NoneId) :
        n \in 0..MaxNewTokens}

SamplingConfigs ==
    {GenerationConfig(n, TRUE, F(1), NoneId, NoneF32, F(1), eos) :
        n \in 0..MaxNewTokens, eos \in EosChoices}
    \cup {GenerationConfig(n, TRUE, F(2), Some(1), Some(<<1, 2>>), F(1), Some(1)) :
        n \in 0..MaxNewTokens}

\* `for _ in 0..max_new_tokens` has another pass to make.
RangeHasNextInclusive(iter, max_new_tokens) == iter <= max_new_tokens

RangeHasNext(iter, max_new_tokens) == iter < max_new_tokens

\* A context-length check that never stops the loop.
NeverAtContextLimit(seq_len, max_length) == FALSE

\* `if seq_len >= max_length { break; }`
AtContextLimit(seq_len, max_length) == seq_len >= max_length

\* Selection that samples whatever do_sample says.
SelectAlwaysSampling(last_logits, config, rs) ==
    Try(Sample(last_logits, config, rs), LAMBDA t : Ok([token |-> t, drawn |-> Len(rs)]))

\* `let next_token = if config.do_sample { sample } else { argmax }`, with the
\* rng values it consumed.
SelectNextToken(last_logits, config, rs) ==
    IF config.do_sample
    THEN Try(Sample(last_logits, config, rs), LAMBDA t : Ok([token |-> t, drawn |-> Len(rs)]))
    ELSE Try(Argmax(last_logits, -1), LAMBDA t : Ok([token |-> t, drawn |-> 0]))

\* An EOS check that never matches.
NeverEos(config, next_token_id) == FALSE

\* `if let Some(eos_id) = config.eos_token_id { if next_token_id == eos_id`
IsEos(config, next_token_id) ==
    config.eos_token_id.some /\ next_token_id = config.eos_token_id.val

\* One pass through the loop body up to the selection of the next token: the
\* outcome is "break", "fail" (an error returned by `?`) or "select" with the
\* logits of the last position; fed is the sequence length handed to forward.
BeforeSelect(model, config, current_ids) ==
    LET seq_len == current_ids.shape[2]
        max_length == MaxSequenceLength(model)
        Outcome(kind, err, fed, last_logits) ==
            [kind |-> kind, err |-> err, fed |-> fed, last_logits |-> last_logits]
    IN IF AtContextLimit(seq_len, max_length) THEN Outcome("break", "none", <<>>, NoVal)
       ELSE Let(IF seq_len > max_length
                THEN Slice(current_ids, 1, seq_len - max_length, seq_len)
                ELSE Ok(current_ids), LAMBDA model_input :
            IF ~model_input.ok THEN Outcome("fail", model_input.err, <<>>, NoVal)
            ELSE Let(Try(GptForward(model, model_input.val), LAMBDA logits :
                     Try(Select(logits, 1, logits.shape[2] - 1), LAMBDA selected :
                         IF config.repetition_penalty # F(1)
                         THEN ApplyRepetitionPenalty(selected, current_ids,
                                                     config.repetition_penalty)
                         ELSE Ok(selected))), LAMBDA last_logits :
                 IF ~last_logits.ok
                 THEN Outcome("fail", last_logits.err, <<model_input.val.shape[2]>>, NoVal)
                 ELSE Outcome("select", "none", <<model_input.val.shape[2]>>,
                              last_logits.val)))

\* The rest of the pass, with the values rs the rng returns if asked: an error
\* returned by `?`, or the outcome "break" or "continue" (with the new
\* current_ids), the selected tokens and the number of values drawn.
AfterSelect(config, current_ids, last_logits, rs) ==
    Try(SelectNextToken(last_logits, config, rs), LAMBDA next :
    Try(IF config.eos_token_id.some THEN Get(next.token, <<0>>) ELSE Ok(F(0)),
        LAMBDA next_token_id :
        IF config.eos_token_id.some /\ IsEos(config, AsUnsigned(next_token_id))
        THEN Ok([kind |-> "break", pick |-> next.token.data, drawn |-> next.drawn,
                 ids |-> current_ids])
        ELSE Try(Unsqueeze(next.token, -1), LAMBDA next_token_2d :
             Try(Cat(<<current_ids, next_token_2d>>, 1), LAMBDA appended :
                 Ok([kind |-> "continue", pick |-> next.token.data, drawn |-> next.drawn,
                     ids |-> appended])))))

Started(model, input_ids, config) ==
    [phase |-> "generate", pc |-> "begin", run |-> 1, model |-> model,
     config |-> config, input_ids |-> input_ids, is_1d |-> FALSE,
     current_ids |-> input_ids, iter |-> 0, fed |-> <<>>, picks |-> <<>>,
     draws |-> 0, result |-> Err("unset"),
     first |-> [result |-> Err("unset"), draws |-> 0, picks |-> <<>>]]

InitGenerate ==
    /\ \E model \in Models, input_ids \in Prompts, config \in GreedyConfigs \cup SamplingConfigs :
          gen = Started(model, input_ids, config)
    /\ shp = Idle /\ mm = Idle /\ lin = Idle /\ att = Idle /\ heap = Idle /\ call = Idle

GenBegin ==
    /\ gen.phase = "generate" /\ gen.pc = "begin"
    /\ LET is_1d == Ndim(gen.input_ids) = 1
           current_ids == IF is_1d THEN Unsqueeze(gen.input_ids, 0) ELSE Ok(gen.input_ids)
       IN gen' = IF current_ids.ok
                 THEN [gen EXCEPT !.pc = "loop", !.is_1d = is_1d,
                                  !.current_ids = current_ids.val, !.iter = 0]
                 ELSE [gen EXCEPT !.pc = "done", !.is_1d = is_1d, !.result = current_ids]
    /\ UNCHANGED <<shp, mm, lin, att, heap, call>>

\* The state after the second half of a pass ended with `post`.
Selected(g, post) ==
    IF ~post.ok THEN [g EXCEPT !.pc = "done", !.result = Err(post.err)]
    ELSE IF post.val.kind = "break"
    THEN [g EXCEPT !.pc = "return", !.picks = Append(@, post.val.pick),
                   !.draws = @ + post.val.drawn]
    ELSE [g EXCEPT !.current_ids = post.val.ids, !.iter = @ + 1,
                   !.picks = Append(@, post.val.pick), !.draws = @ + post.val.drawn]

\* One pass whose first half ended with `pre`.
GenPass(pre) ==
    CASE pre.kind = "break" -> gen' = [gen EXCEPT !.pc = "return"]
      [] pre.kind = "fail" ->
            gen' = [gen EXCEPT !.pc = "done", !.fed = @ \o pre.fed, !.result = Err(pre.err)]
      [] pre.kind = "select" ->
            \E rs \in SeqsOfLen(Draws, gen.current_ids.shape[1]) :
               gen' = Selected([gen EXCEPT !.fed = @ \o pre.fed],
                               AfterSelect(gen.config, gen.current_ids, pre.last_logits, rs))

GenStep ==
    /\ gen.phase = "generate" /\ gen.pc = "loop"
    /\ RangeHasNext(gen.iter, gen.config.max_new_tokens)
    /\ GenPass(BeforeSelect(gen.model, gen.config, gen.current_ids))
    /\ UNCHANGED <<shp, mm, lin, att, heap, call>>

GenExhausted ==
    /\ gen.phase = "generate" /\ gen.pc = "loop"
    /\ ~RangeHasNext(gen.iter, gen.config.max_new_tokens)
    /\ gen' = [gen EXCEPT !.pc = "return"]
    /\ UNCHANGED <<shp, mm, lin, att, heap, call>>

GenReturn ==
    /\ gen.phase = "generate" /\ gen.pc = "return"
    /\ gen' = [gen EXCEPT !.pc = "done",
                          !.result = IF gen.is_1d THEN Squeeze(gen.current_ids, 0)
                                     ELSE Ok(gen.current_ids)]
    /\ UNCHANGED <<shp, mm, lin, att, heap, call>>

\* The caller calls generate again with the same model, input and config.
GenAgain ==
    /\ gen.phase = "generate" /\ gen.pc = "done" /\ gen.run = 1
    /\ gen' = [gen EXCEPT !.pc = "begin", !.run = 2, !.is_1d = FALSE,
                          !.current_ids = gen.input_ids, !.iter = 0, !.fed = <<>>,
                          !.picks = <<>>, !.draws = 0, !.result = Err("unset"),
                          !.first = [result |-> gen.result, draws |-> gen.draws,
                                     picks |-> gen.picks]]
    /\ UNCHANGED <<shp, mm, lin, att, heap, call>>

NextGenerate == GenBegin \/ GenStep \/ GenExhausted \/ GenReturn

SpecGenerate == InitGenerate /\ [][NextGenerate]_vars

InitGreedyTwice ==
    /\ \E model \in Models, input_ids \in Prompts, config \in GreedyConfigs :
          gen = Started(model, input_ids, config)
    /\ shp = Idle /\ mm = Idle /\ lin = Idle /\ att = Idle /\ heap = Idle /\ call = Idle

NextGreedyTwice == GenBegin \/ GenStep \/ GenExhausted \/ GenReturn \/ GenAgain

SpecGreedyTwice == InitGreedyTwice /\ [][NextGreedyTwice]_vars

(***************************************************************************)
(* Properties of generate.                                                  *)
(***************************************************************************)
\* The rows of a [seq] or [batch, seq] tensor of token ids.
Rows(t) ==
    IF Ndim(t) = 1 THEN <<Iter(t)>>
    ELSE [b \in 1..t.shape[1] |-> [i \in 1..t.shape[2] |-> Get(t, <<b - 1, i - 1>>).val]]

IsPrefix(p, q) == Len(p) <= Len(q) /\ SubSeq(q, 1, Len(p)) = p

\* t has the rows of the prompt, each followed by the same number k of further
\* tokens, least <= k <= most.
ExtendsPrompt(t, least, most) ==
    /\ Len(Rows(t)) = Len(Rows(gen.input_ids))
    /\ \A b \in 1..Len(Rows(t)) :
          /\ IsPrefix(Rows(gen.input_ids)[b], Rows(t)[b])
          /\ Len(Rows(t)[b]) - Len(Rows(gen.input_ids)[b]) \in least..most

\* C1: in every pass of the loop current_ids is the prompt followed by one
\* token per completed pass, and a sequence returned by generate has the rank of
\* the input and is the prompt followed by k tokens, 0 <= k <= max_new_tokens.
GenerateExtendsPrompt ==
    gen.phase = "generate" =>
       /\ gen.pc \in {"loop", "return"} =>
             /\ gen.iter <= gen.config.max_new_tokens
             /\ ExtendsPrompt(gen.current_ids, gen.iter, gen.iter)
       /\ gen.pc = "done" /\ gen.result.ok =>
             /\ Ndim(gen.result.val) = Ndim(gen.input_ids)
             /\ ExtendsPrompt(gen.result.val, 0, gen.config.max_new_tokens)

\* A batch of two rows came back with max_new_tokens >= 2 tokens appended to
\* each row.
GenerateReturnedFullBatch ==
    /\ gen.phase = "generate" /\ gen.pc = "done" /\ gen.result.ok
    /\ gen.input_ids.shape = <<2, 1>>
    /\ gen.config.max_new_tokens >= 2
    /\ gen.result.val.shape = <<2, 1 + gen.config.max_new_tokens>>

\* The token selected for row 0 in pass i.
PickedId(i) == AsUnsigned(gen.picks[i][1])

\* The tokens of row 0 of current_ids after the prompt.
GeneratedRow ==
    SubSeq(Rows(gen.current_ids)[1], Len(Rows(gen.input_ids)[1]) + 1,
           Len(Rows(gen.current_ids)[1]))

\* C2: with one sequence and eos_token_id set, a selected token equal to
\* eos_token_id ends the loop and is not appended, every other selected token
\* is appended and the loop goes on; no generated position holds eos_token_id.
EosStopsWithoutAppending ==
    (/\ gen.phase = "generate" /\ gen.pc # "begin"
     /\ gen.current_ids.shape[1] = 1
     /\ gen.config.eos_token_id.some) =>
       LET eos == gen.config.eos_token_id.val
           n == Len(gen.picks)
           kept == IF n > 0 /\ PickedId(n) = eos THEN n - 1 ELSE n
       IN /\ \A i \in 1..(n - 1) : PickedId(i) # eos
          /\ GeneratedRow = [i \in 1..kept |-> gen.picks[i][1]]
          /\ gen.iter = kept
          /\ kept < n => gen.pc \in {"return", "done"}
          /\ \A i \in 1..Len(GeneratedRow) : AsUnsigned(GeneratedRow[i]) # eos
          /\ gen.pc = "done" /\ gen.result.ok =>
                Rows(gen.result.val)[1] = Rows(gen.current_ids)[1]

\* A run that appended a token and then stopped at eos_token_id.
StoppedAtEosAfterAppending ==
    /\ gen.phase = "generate" /\ gen.pc = "done" /\ gen.result.ok
    /\ gen.current_ids.shape[1] = 1
    /\ gen.config.eos_token_id.some
    /\ Len(gen.picks) >= 2
    /\ PickedId(Len(gen.picks)) = gen.config.eos_token_id.val
    /\ Len(GeneratedRow) = Len(gen.picks) - 1

\* C3: forward is only called while the sequence is shorter than n_positions,
\* with the whole sequence; a prompt of n_positions tokens or more is returned as
\* it is without a forward pass, and generate never fails with ModelError.
GenerateRespectsContext ==
    gen.phase = "generate" =>
       LET n_positions == gen.model.config.n_positions
           prompt_len == Len(Rows(gen.input_ids)[1])
       IN /\ \A i \in 1..Len(gen.fed) :
                gen.fed[i] < n_positions /\ gen.fed[i] = prompt_len + i - 1
          /\ gen.result.err # "ModelError"
          /\ gen.pc # "begin" => gen.current_ids.shape[2] <= Max2(n_positions, prompt_len)
          /\ prompt_len >= n_positions =>
                /\ gen.fed = <<>>
                /\ gen.pc = "done" => gen.result = Ok(gen.input_ids)

\* The loop ran forward, appended, and then stopped at the context limit with
\* passes of the range left over.
StoppedAtContextLimit ==
    /\ gen.phase = "generate" /\ gen.pc = "done" /\ gen.result.ok
    /\ ~gen.config.eos_token_id.some
    /\ Len(gen.fed) >= 1
    /\ gen.iter < gen.config.max_new_tokens
    /\ gen.current_ids.shape[2] = gen.model.config.n_positions

MaxGetRank == 2

MaxGetDim == 2

\* A tensor whose element at flat position k is k.
Counting(shape) == Tensor([k \in 1..Numel(shape) |-> F(k - 1)], shape)

GetShapes == SeqsUpTo(1..MaxGetDim, 0, MaxGetRank)

GetIndices == SeqsUpTo(0..MaxGetDim, 0, MaxGetRank + 1)

InitGet ==
    /\ \E shape \in GetShapes, indices \in GetIndices :
          call = [phase |-> "args", op |-> "get", t |-> Counting(shape),
                  indices |-> indices, result |-> Err("unset")]
    /\ NoObjects

CallGet ==
    /\ call.phase = "args" /\ call.op = "get"
    /\ call' = [call EXCEPT !.phase = "done", !.result = Get(call.t, call.indices)]
    /\ UNCHANGED objects

NextGet == CallGet

SpecGet == InitGet /\ [][NextGet]_vars

InBounds(t, indices) ==
    Len(indices) = Ndim(t) /\ \A i \in 1..Len(indices) : indices[i] < t.shape[i]

\* The element at offset + sum of indices[i] * strides[i].
ElementAt(t, indices) ==
    t.data[t.offset + SumNat([i \in 1..Len(indices) |-> indices[i] * t.strides[i]]) + 1]

\* C11: get returns the element at offset + sum of indices[i] * strides[i]
\* exactly when there are ndim indices, each below its dimension's size, and
\* fails with IndexOutOfBounds in every other case.
GetFailsOnlyOutOfBounds ==
    (call.phase = "done" /\ call.op = "get") =>
       IF InBounds(call.t, call.indices)
       THEN call.result = Ok(ElementAt(call.t, call.indices))
       ELSE call.result.err = "IndexOutOfBounds"

\* C11, amended: as above, except that a wrong number of indices fails with
\* InvalidOperation; IndexOutOfBounds is the failure of ndim indices of which
\* one is not below its dimension's size.
GetChecksCountThenBounds ==
    (call.phase = "done" /\ call.op = "get") =>
       IF InBounds(call.t, call.indices)
       THEN call.result = Ok(ElementAt(call.t, call.indices))
       ELSE IF Len(call.indices) # Ndim(call.t)
       THEN call.result.err = "InvalidOperation"
       ELSE call.result.err = "IndexOutOfBounds"

\* get was called on a matrix with too many indices, all of them in range.
GetCalledWithWrongCount ==
    /\ call.phase = "done" /\ call.op = "get"
    /\ Ndim(call.t) = 2 /\ Len(call.indices) = 3
    /\ \A i \in 1..2 : call.indices[i] < call.t.shape[i]
    /\ ~call.result.ok

(***************************************************************************)
(* GptModel::forward on [batch, seq_len] token ids.                         *)
(***************************************************************************)
MaxFwdSeq == 4

MaxFwdTokens == 4

\* Token 2 is outside the vocabulary of every model of Models.
FwdTokens == {0, 1, 2}

FwdShapes ==
    {sh \in (1..MaxBatch) \X (0..MaxFwdSeq) : sh[1] * sh[2] <= MaxFwdTokens}

InitForward ==
    /\ \E model \in Models, shape \in FwdShapes :
          \E tokens \in SeqsOfLen(FwdTokens, shape[1] * shape[2]) :
             call = [phase |-> "args", op |-> "forward", model |-> model,
                     input_ids |-> Ids(tokens, shape), result |-> Err("unset")]
    /\ NoObjects

CallForward ==
    /\ call.phase = "args" /\ call.op = "forward"
    /\ call' = [call EXCEPT !.phase = "done",
                            !.result = GptForward(call.model, call.input_ids)]
    /\ UNCHANGED objects

NextForward == CallForward

SpecForward == InitForward /\ [][NextForward]_vars

InVocabulary(model, input_ids) ==
    \A i \in 1..Len(input_ids.data) :
        FLt(input_ids.data[i], F(model.config.vocab_size))

Scale(m, e) ==
    IF m = 0 THEN F(0)
    ELSE IF e >= 0 THEN F(m * Pow2(e)) ELSE Norm(m, Pow2(-e))

\* f32::from_bits on sign (1 bit), exponent (8 bits) and fraction (23 bits).
F32FromBits(sign, exp, frac) ==
    LET magnitude == IF exp = 255 THEN (IF frac = 0 THEN PosInf ELSE NaN)
                     ELSE IF exp = 0 THEN Scale(frac, -149)
                     ELSE Scale(8388608 + frac, exp - 150)
    IN IF sign = 1 /\ ~IsNaN(magnitude) THEN FNeg(magnitude) ELSE magnitude

\* f32::from_le_bytes
F32FromLeBytes(chunk) ==
    F32FromBits(chunk[4] \div 128,
                (chunk[4] % 128) * 2 + chunk[3] \div 128,
                (chunk[3] % 128) * 65536 + chunk[2] * 256 + chunk[1])

\* u16::from_le_bytes / u64::from_le_bytes, evaluated from the most significant
\* byte down.
RECURSIVE UnsignedFromLeBytes(_)
UnsignedFromLeBytes(chunk) ==
    IF chunk = <<>> THEN 0 ELSE UnsignedFromLeBytes(Tail(chunk)) * 256 + chunk[1]

\* half_to_f32
HalfToF32(half) ==
    LET sign == (half \div 32768) % 2
        exp == (half \div 1024) % 32
        frac == half % 1024
    IN IF exp = 0
       THEN (IF frac = 0 THEN F32FromBits(sign, 0, 0)
             ELSE LET val == FMul(FDiv(F(frac), F(1024)), <<1, 16384>>)
                  IN IF sign = 1 THEN FNeg(val) ELSE val)
       ELSE IF exp = 31
       THEN (IF frac = 0 THEN (IF sign = 1 THEN NegInf ELSE PosInf) ELSE NaN)
       ELSE F32FromBits(sign, exp - 15 + 127, frac * 8192)

\* bf16_to_f32: the 16 bits are the upper half of the f32 pattern.
Bf16ToF32(bf16) ==
    F32FromBits(bf16 \div 32768, (bf16 \div 128) % 256, (bf16 % 128) * 65536)

\* i32::from_le_bytes / i64::from_le_bytes: two's complement, evaluated from
\* the most significant byte down.
RECURSIVE SignedFromLeBytes(_)
SignedFromLeBytes(chunk) ==
    IF Len(chunk) = 1
    THEN (IF chunk[1] >= 128 THEN chunk[1] - 256 ELSE chunk[1])
    ELSE SignedFromLeBytes(Tail(chunk)) * 256 + chunk[1]

\* Number of bits of a positive integer.
RECURSIVE BitLength(_)
BitLength(n) == IF n = 0 THEN 0 ELSE 1 + BitLength(n \div 2)

\* `val as f32` for an integer: exact up to 24 significant bits, beyond that
\* rounded to the nearest value of 24 bits, ties to even.
IntToF32(val) ==
    LET a == Abs(val)
        shift == BitLength(a) - 24
        q == a \div Pow2(shift)
        r == a % Pow2(shift)
        half == Pow2(shift - 1)
        up == IF r > half \/ (r = half /\ q % 2 = 1) THEN 1 ELSE 0
        rounded == IF shift <= 0 THEN F(a) ELSE Scale(q + up, shift)
    IN IF val < 0 THEN FNeg(rounded) ELSE rounded

\* f64::from_le_bytes followed by `as f32`: the 52-bit fraction is split into
\* its upper 23 bits and its lower 29 bits, which decide the rounding.
F64ToF32(chunk) ==
    LET sign == chunk[8] \div 128
        exp == (chunk[8] % 128) * 16 + chunk[7] \div 16
        hi == (chunk[7] % 16) * 524288 + chunk[6] * 2048 + chunk[5] * 8 + chunk[4] \div 32
        lo == (chunk[4] % 32) * 16777216 + chunk[3] * 65536 + chunk[2] * 256 + chunk[1]
        e == exp - 1023
        m == 8388608 + hi
        \* a result in the normal range of f32
        up == IF lo > 268435456 \/ (lo = 268435456 /\ hi % 2 = 1) THEN 1 ELSE 0
        \* a result below the normal range: a multiple of 2^-149
        d == -126 - e
        q == m \div Pow2(d)
        r == m % Pow2(d)
        h == Pow2(d - 1)
        upSub == IF r > h \/ (r = h /\ (lo > 0 \/ q % 2 = 1)) THEN 1 ELSE 0
        magnitude ==
            IF exp = 2047 THEN (IF hi = 0 /\ lo = 0 THEN PosInf ELSE NaN)
            ELSE IF exp = 0 \/ e < -150 THEN F(0)
            ELSE IF e < -126 THEN Scale(q + upSub, -149)
            ELSE IF e > 127 \/ (e = 127 /\ m + up = 16777216) THEN PosInf
            ELSE Scale(m + up, e - 23)
    IN IF sign = 1 /\ ~IsNaN(magnitude) THEN FNeg(magnitude) ELSE magnitude

\* chunks_exact(n): the chunks of n bytes; a shorter remainder is left out.
ChunksExact(bytes, n) ==
    [c \in 1..(Len(bytes) \div n) |-> SubSeq(bytes, (c - 1) * n + 1, c * n)]

\* A reading of bytes_to_f32 that takes every dtype for "F32".
BytesToF32Untyped(bytes, dtype) ==
    Ok([c \in 1..(Len(bytes) \div 4) |-> F32FromLeBytes(ChunksExact(bytes, 4)[c])])

\* SafeTensorLoader::bytes_to_f32
BytesToF32(bytes, dtype) ==
    CASE dtype = "F32" ->
           Ok([c \in 1..(Len(bytes) \div 4) |-> F32FromLeBytes(ChunksExact(bytes, 4)[c])])
      [] dtype = "F16" ->
           Ok([c \in 1..(Len(bytes) \div 2) |->
                  HalfToF32(UnsignedFromLeBytes(ChunksExact(bytes, 2)[c]))])
      [] dtype = "BF16" ->
           Ok([c \in 1..(Len(bytes) \div 2) |->
                  Bf16ToF32(UnsignedFromLeBytes(ChunksExact(bytes, 2)[c]))])
      [] dtype = "F64" ->
           Ok([c \in 1..(Len(bytes) \div 8) |-> F64ToF32(ChunksExact(bytes, 8)[c])])
      [] dtype = "I32" ->
           Ok([c \in 1..(Len(bytes) \div 4) |->
                  IntToF32(SignedFromLeBytes(ChunksExact(bytes, 4)[c]))])
      [] dtype = "I64" ->
           Ok([c \in 1..(Len(bytes) \div 8) |->
                  IntToF32(SignedFromLeBytes(ChunksExact(bytes, 8)[c]))])
      [] OTHER -> Err("UnsupportedDtype")

(***************************************************************************)
(* SafeTensorLoader: the header and the tensors of a checkpoint.            *)
(* serde_json::Value is a record with its kind; an object's fields are a    *)
(* function from keys to values.                                            *)
(***************************************************************************)
JNull == [kind |-> "null"]

JStr(s) == [kind |-> "string", str |-> s]

\* A number that as_u64 accepts.
JU64(n) == [kind |-> "u64", num |-> n]

\* A number that as_u64 rejects: negative or with a fraction.
JF64 == [kind |-> "f64"]

JArr(items) == [kind |-> "array", items |-> items]

JObj(fields) == [kind |-> "object", fields |-> fields]

\* What serde_json::from_slice returns for bytes that are not JSON.
JInvalid == [kind |-> "invalid"]

\* Value's Index<&str>: Null for a missing key or a value that is no object.
Index(v, key) ==
    IF v.kind = "object" /\ key \in DOMAIN v.fields THEN v.fields[key] ELSE JNull

\* v.as_u64().unwrap_or(0)
AsU64Or0(v) == IF v.kind = "u64" THEN v.num ELSE 0

\* A panic: the call does not return.
Panic == [ok |-> FALSE, val |-> NoVal, err |-> "panic"]

\* A data start that leaves out the 8 bytes of the header length.
DataStartAfterHeaderOnly(header_size) == header_size

\* data_start in load_from_reader
DataStart(header_size) == 8 + header_size

\* SafeTensorLoader::load_tensor on the bytes of the file behind the reader:
\* seek(SeekFrom::Start(data_start + start)), read_exact of end - start bytes.
LoadTensor(bytes, info, data_start) ==
    LET dtype == Index(info, "dtype")
        shape == Index(info, "shape")
        data_offsets == Index(info, "data_offsets")
    IN IF dtype.kind # "string" THEN Err("InvalidHeader")
       ELSE IF shape.kind # "array" THEN Err("InvalidHeader")
       ELSE IF data_offsets.kind # "array" THEN Err("InvalidHeader")
       ELSE IF Len(data_offsets.items) < 2 THEN Panic
       ELSE LET dims == [i \in 1..Len(shape.items) |-> AsU64Or0(shape.items[i])]
                start == AsU64Or0(data_offsets.items[1])
                end == AsU64Or0(data_offsets.items[2])
            IN IF end < start THEN Panic
               ELSE IF end > start /\ data_start + end > Len(bytes) THEN Err("IoError")
               ELSE Try(BytesToF32(SubSeq(bytes, data_start + start + 1, data_start + end),
                                   dtype.str),
                        LAMBDA data : FromVec(data, dims))

\* name == "__metadata__"
IsMetadata(name) == name = "__metadata__"

\* The first part of load_from_reader: the header length, the header and
\* data_start; the entries of the header are then pending.
AfterHeader(c) ==
    LET bytes == c.file.bytes
        header_size == UnsignedFromLeBytes(SubSeq(bytes, 1, 8))
        header == c.file.json
    IN IF Len(bytes) < 8 THEN [c EXCEPT !.phase = "done", !.result = Err("IoError")]
       ELSE IF Len(bytes) < 8 + header_size
       THEN [c EXCEPT !.phase = "done", !.result = Err("IoError")]
       ELSE IF header.kind = "invalid"
       THEN [c EXCEPT !.phase = "done", !.result = Err("JsonError")]
       ELSE [c EXCEPT !.phase = "entries", !.pos = 8 + header_size,
                      !.data_start = DataStart(header_size),
                      !.pending = IF header.kind = "object" THEN DOMAIN header.fields
                                  ELSE {}]

\* One pass of the loop over the header's entries, for the entry `name`.
LoadedEntry(c, name, r) ==
    IF r = Panic THEN [c EXCEPT !.phase = "panicked"]
    ELSE IF ~r.ok THEN [c EXCEPT !.phase = "done", !.result = r]
    ELSE [c EXCEPT !.pending = @ \ {name},
                   !.tensors = (name :> r.val) @@ @,
                   !.pos = c.data_start
                           + AsU64Or0(Index(c.file.json.fields[name], "data_offsets").items[2])]

AfterEntry(c, name) ==
    IF IsMetadata(name) THEN [c EXCEPT !.pending = @ \ {name}]
    ELSE LoadedEntry(c, name, LoadTensor(c.file.bytes, c.file.json.fields[name], c.data_start))

(***************************************************************************)
(* The checkpoints that are loaded.                                         *)
(***************************************************************************)
MaxFileTensors == 2

\* The data section: the i64 value -2, then the f32 values 1.5 and -2.0.
DataSection == <<254, 255, 255, 255, 255, 255, 255, 255, 0, 0, 192, 63, 0, 0, 0, 192>>

TensorInfo(dtype, shape, data_offsets) ==
    JObj([k \in {"dtype", "shape", "data_offsets"} |->
            CASE k = "dtype" -> dtype [] k = "shape" -> shape [] OTHER -> data_offsets])

U64Array(s) == JArr([i \in 1..Len(s) |-> JU64(s[i])])

Entry(dtype, shape, start, end) ==
    TensorInfo(JStr(dtype), U64Array(shape), U64Array(<<start, end>>))

\* Entries that describe a part of DataSection in one of the six dtypes.
WellFormedEntries ==
    {Entry("F32", <<2>>, 8, 16), Entry("F32", <<1, 1>>, 12, 16), Entry("F32", <<>>, 8, 12),
     Entry("F16", <<2, 2>>, 8, 16), Entry("F16", <<1>>, 0, 2),
     Entry("BF16", <<2>>, 12, 16), Entry("BF16", <<0>>, 2, 2),
     Entry("F64", <<1>>, 8, 16), Entry("I32", <<3, 1>>, 4, 16), Entry("I64", <<1>>, 0, 8)}

\* Entries with every kind of dtype, shape and data_offsets field.
AnyEntries ==
    {TensorInfo(dtype, shape, data_offsets) :
        dtype \in {JStr("F32"), JStr("F16"), JStr("I32"), JStr("U8"), JStr("f32"),
                   JNull, JU64(32)},
        shape \in {U64Array(<<2>>), U64Array(<<1>>), U64Array(<<>>), JNull, JU64(2),
                   JArr(<<JF64>>), JArr(<<JU64(2), JStr("x")>>)},
        data_offsets \in {U64Array(<<8, 16>>), U64Array(<<8, 12>>), JNull, JStr("8:16"),
                          U64Array(<<>>), U64Array(<<8>>), JArr(<<JU64(8), JF64>>),
                          JArr(<<JNull, JU64(8)>>), JArr(<<JNull, JF64>>),
                          U64Array(<<8, 16, 24>>)}}

Metadata == JObj([k \in {"format"} |-> JStr("pt")])

TensorNames == <<"wte.weight", "ln_f.bias", "wpe.weight", "ln_f.weight">>

\* Headers with up to MaxFileTensors well-formed entries, or one entry of
\* any kind, with and without "__metadata__".
Headers ==
    LET names == {TensorNames[i] : i \in 1..MaxFileTensors}
        tensors == UNION {[keys -> WellFormedEntries] : keys \in SUBSET names}
                   \cup [{TensorNames[1]} -> AnyEntries]
    IN {JObj(t) : t \in tensors}
       \cup {JObj(("__metadata__" :> Metadata) @@ t) : t \in tensors}

\* The header's text is kept as its parse; in the bytes of the file it is
\* as many zero bytes as the text is long (here 8 per key and 8 more).
HeaderLength(json) ==
    IF json.kind = "object" THEN 8 + 8 * Cardinality(DOMAIN json.fields) ELSE 8

File(header_size, header_length, json, data) ==
    [bytes |-> <<header_size, 0, 0, 0, 0, 0, 0, 0>> \o [i \in 1..header_length |-> 0] \o data,
     json |-> json]

Files ==
    {File(HeaderLength(json), HeaderLength(json), json, DataSection) : json \in Headers}
    \cup {File(8, 8, JInvalid, DataSection), File(8, 8, JArr(<<>>), DataSection),
          File(64, 8, JObj(<<>>), DataSection),
          [bytes |-> <<8, 0, 0>>, json |-> JObj(<<>>)]}

InitLoad ==
    /\ \E file \in Files :
          call = [phase |-> "open", op |-> "load", file |-> file, pos |-> 0,
                  data_start |-> 0, pending |-> {}, tensors |-> <<>>,
                  result |-> Err("unset")]
    /\ NoObjects

\* load_from_reader up to the loop over the entries.
ReadHeader ==
    /\ call.phase = "open" /\ call.op = "load"
    /\ call' = AfterHeader(call)
    /\ UNCHANGED objects

\* One pass of the loop, in any order of the entries.
LoadEntry ==
    /\ call.phase = "entries" /\ call.op = "load"
    /\ \E name \in call.pending : call' = AfterEntry(call, name)
    /\ UNCHANGED objects

\* Ok(tensors)
ReturnTensors ==
    /\ call.phase = "entries" /\ call.op = "load" /\ call.pending = {}
    /\ call' = [call EXCEPT !.phase = "done", !.result = Ok(call.tensors)]
    /\ UNCHANGED objects

NextLoad == ReadHeader \/ LoadEntry \/ ReturnTensors

SpecLoad == InitLoad /\ [][NextLoad]_vars

(***************************************************************************)
(* Properties of the loader.                                                *)
(***************************************************************************)
SupportedDtypes == {"F32", "F16", "BF16", "F64", "I32", "I64"}

\* Bytes per element of a supported dtype.
ElementSize(dtype) ==
    CASE dtype \in {"F16", "BF16"} -> 2
      [] dtype \in {"F32", "I32"} -> 4
      [] dtype \in {"F64", "I64"} -> 8

IsU64Array(v) ==
    v.kind = "array" /\ \A i \in 1..Len(v.items) : v.items[i].kind = "u64"

DeclaredShape(info) ==
    [i \in 1..Len(Index(info, "shape").items) |-> Index(info, "shape").items[i].num]

DeclaredStart(info) == Index(info, "data_offsets").items[1].num

DeclaredEnd(info) == Index(info, "data_offsets").items[2].num

\* The entry names a supported dtype, a shape and a range of the data
\* section of as many bytes as the shape has elements of that dtype.
WellFormedEntry(info, data_length) ==
    /\ Index(info, "dtype").kind = "string"
    /\ Index(info, "dtype").str \in SupportedDtypes
    /\ IsU64Array(Index(info, "shape"))
    /\ IsU64Array(Index(info, "data_offsets"))
    /\ Len(Index(info, "data_offsets").items) = 2
    /\ DeclaredStart(info) <= DeclaredEnd(info)
    /\ DeclaredEnd(info) <= data_length
    /\ DeclaredEnd(info) - DeclaredStart(info)
          = Numel(DeclaredShape(info)) * ElementSize(Index(info, "dtype").str)

TensorKeys(json) == DOMAIN json.fields \ {"__metadata__"}

HeaderLen(file) == UnsignedFromLeBytes(SubSeq(file.bytes, 1, 8))

\* [u64 LE header_len][header JSON][data] with well-formed entries.
WellFormedFile(file) ==
    /\ Len(file.bytes) >= 8
    /\ file.json.kind = "object"
    /\ HeaderLen(file) = HeaderLength(file.json)
    /\ Len(file.bytes) >= 8 + HeaderLen(file)
    /\ \A name \in TensorKeys(file.json) :
          WellFormedEntry(file.json.fields[name], Len(file.bytes) - 8 - HeaderLen(file))

\* The values of the entry decoded from the file bytes at the absolute
\* positions [8 + header_len + start, 8 + header_len + end).
DeclaredValues(file, info) ==
    BytesToF32(SubSeq(file.bytes, 8 + HeaderLen(file) + DeclaredStart(info) + 1,
                      8 + HeaderLen(file) + DeclaredEnd(info)),
               Index(info, "dtype").str).val

\* C13: loading a well-formed checkpoint returns, whatever the order in which
\* the header's entries are visited, a map whose keys are the header's keys
\* other than "__metadata__", each tensor with the declared shape and with the
\* values decoded from the bytes at [8 + header_len + start, 8 + header_len + end).
LoadReturnsDeclaredTensors ==
    (call.op = "load" /\ WellFormedFile(call.file)) =>
       /\ call.phase # "panicked"
       /\ call.phase = "done" =>
             /\ call.result.ok
             /\ DOMAIN call.result.val = TensorKeys(call.file.json)
             /\ \A name \in TensorKeys(call.file.json) :
                   LET info == call.file.json.fields[name]
                   IN /\ call.result.val[name].shape = DeclaredShape(info)
                      /\ call.result.val[name].data = DeclaredValues(call.file, info)

\* A checkpoint with two tensors of different dtypes and a "__metadata__"
\* key was loaded.
LoadedTwoTensorsAndMetadata ==
    /\ call.phase = "done" /\ call.op = "load" /\ WellFormedFile(call.file)
    /\ DOMAIN call.file.json.fields = {"wte.weight", "ln_f.bias", "__metadata__"}
    /\ call.result.ok
    /\ call.result.val["wte.weight"].data = <<<<3, 2>>, <<-2, 1>>>>
    /\ call.result.val["ln_f.bias"].data = <<F(-2)>>

\* A header field of the entry is malformed: dtype missing or not a string,
\* shape missing, not an array or with a non-integer element, data_offsets
\* missing, not an array or not holding two integers.
MalformedEntry(info) ==
    \/ Index(info, "dtype").kind # "string"
    \/ ~IsU64Array(Index(info, "shape"))
    \/ Index(info, "data_offsets").kind # "array"
    \/ Len(Index(info, "data_offsets").items) < 2
    \/ \E i \in 1..2 : Index(info, "data_offsets").items[i].kind # "u64"

\* A file with a well-formed frame whose header has one tensor entry.
SingleEntryFile(file) ==
    /\ Len(file.bytes) >= 8
    /\ file.json.kind = "object"
    /\ HeaderLen(file) = HeaderLength(file.json)
    /\ Len(file.bytes) >= 8 + HeaderLen(file)
    /\ Cardinality(TensorKeys(file.json)) = 1

\* C14: loading an entry with a malformed header field fails with
\* InvalidHeader, loading an entry with sound fields and a dtype outside
\* F32, F16, BF16, F64, I32, I64 fails with UnsupportedDtype, and in both
\* cases no tensor is returned for the entry.
LoadRejectsMalformedEntry ==
    (call.op = "load" /\ SingleEntryFile(call.file)) =>
       LET info == call.file.json.fields[CHOOSE name \in TensorKeys(call.file.json) : TRUE]
           rejected(e) == /\ call.phase # "panicked"
                          /\ DOMAIN call.tensors = {}
                          /\ call.phase = "done" => ~call.result.ok /\ call.result.err = e
       IN /\ MalformedEntry(info) => rejected("InvalidHeader")
          /\ (~MalformedEntry(info) /\ Index(info, "dtype").str \notin SupportedDtypes
                /\ DeclaredStart(info) <= DeclaredEnd(info)
                /\ 8 + HeaderLen(call.file) + DeclaredEnd(info) <= Len(call.file.bytes)) =>
                rejected("UnsupportedDtype")

(***************************************************************************)
(* Gpt2WeightMapper.  A name is the sequence of its segments, the parts     *)
(* between the dots: "h.0.ln_1.weight" is <<"h", "0", "ln_1", "weight">>.   *)
(***************************************************************************)
\* str::strip_prefix for a prefix "<segment>.": the name after that segment.
StripPrefix(name, segment) ==
    IF Len(name) >= 2 /\ name[1] = segment THEN Some(Tail(name)) ELSE None

\* str::starts_with for a prefix "<segment>."
StartsWith(name, segment) == Len(name) >= 2 /\ name[1] = segment

\* A map_name that keeps the "transformer." prefix.
MapNameKeepingPrefix(hf_name) ==
    IF StartsWith(hf_name, "h")
    THEN (IF StripPrefix(hf_name, "h").some
          THEN Some(<<"blocks">> \o StripPrefix(hf_name, "h").val) ELSE None)
    ELSE Some(hf_name)

\* Gpt2WeightMapper::map_name
MapName(hf_name) ==
    LET stripped == StripPrefix(hf_name, "transformer")
        name == IF stripped.some THEN stripped.val ELSE hf_name
    IN IF StartsWith(name, "h")
       THEN (IF StripPrefix(name, "h").some
             THEN Some(<<"blocks">> \o StripPrefix(name, "h").val) ELSE None)
       ELSE Some(name)

MaxKeySegments == 3

Segments == {"transformer", "h", "blocks", "0", "11", "wte", "weight"}

\* The names of the table of Gpt2WeightMapper and of its test.
TableKeys ==
    {<<"transformer", "h", "11", "attn", "c_attn", "weight">>,
     <<"transformer", "h", "0", "ln_1", "weight">>,
     <<"transformer", "wte", "weight">>, <<"transformer", "ln_f", "weight">>,
     <<"blocks", "11", "attn", "c_attn", "weight">>}

Keys == SeqsUpTo(Segments, 1, MaxKeySegments) \cup TableKeys

InitMapName ==
    /\ \E key \in Keys :
          call = [phase |-> "args", op |-> "map_name", hf_name |-> key, result |-> None]
    /\ NoObjects

CallMapName ==
    /\ call.phase = "args" /\ call.op = "map_name"
    /\ call' = [call EXCEPT !.phase = "done", !.result = MapName(call.hf_name)]
    /\ UNCHANGED objects

NextMapName == CallMapName

SpecMapName == InitMapName /\ [][NextMapName]_vars

\* The name without a leading "transformer."
WithoutTransformer(key) ==
    IF Len(key) >= 2 /\ key[1] = "transformer" THEN Tail(key) ELSE key

LayerIndices == {"0", "11"}

\* C15: map_name strips a leading "transformer.", then rewrites a leading
\* "h.{i}.<rest>", {i} a layer index, to "blocks.{i}.<rest>", and leaves every
\* other key unchanged; it never fails.
MapNameRewritesLayerKeys ==
    (call.phase = "done" /\ call.op = "map_name") =>
       LET name == WithoutTransformer(call.hf_name)
       IN /\ call.result.some
          /\ call.result.val =
                IF Len(name) >= 3 /\ name[1] = "h" /\ name[2] \in LayerIndices
                THEN <<"blocks">> \o Tail(name) ELSE name

\* C15, amended: map_name strips a leading "transformer.", then rewrites a
\* leading "h." to "blocks.", whatever follows it, and leaves every other key
\* unchanged; it never fails.
MapNameRewritesLeadingH ==
    (call.phase = "done" /\ call.op = "map_name") =>
       LET name == WithoutTransformer(call.hf_name)
       IN /\ call.result.some
          /\ call.result.val =
                IF Len(name) >= 2 /\ name[1] = "h"
                THEN <<"blocks">> \o Tail(name) ELSE name

\* map_name mapped transformer.h.11.attn.c_attn.weight to
\* blocks.11.attn.c_attn.weight.
MapNameMappedLayerKey ==
    /\ call.phase = "done" /\ call.op = "map_name"
    /\ call.hf_name = <<"transformer", "h", "11", "attn", "c_attn", "weight">>
    /\ call.result = Some(<<"blocks", "11", "attn", "c_attn", "weight">>)

(***************************************************************************)
(* Gpt2WeightMapper::map_weights                                            *)
(***************************************************************************)
\* str::contains for a pattern "<first>.<second>" of two whole segments.
Contains(name, first, second) ==
    \E i \in 1..(Len(name) - 1) : name[i] = first /\ name[i + 1] = second

\* A test of the name that does not know the MLP's c_fc.
IsProjectionWeightWithoutFc(new_name) ==
    \/ Contains(new_name, "c_attn", "weight")
    \/ Contains(new_name, "c_proj", "weight")

\* The test of the name in map_weights.
IsProjectionWeight(new_name) ==
    \/ Contains(new_name, "c_attn", "weight")
    \/ Contains(new_name, "c_proj", "weight")
    \/ Contains(new_name, "c_fc", "weight")

\* The tensor that map_weights inserts under new_name.
MappedTensor(new_name, tensor) ==
    IF IsProjectionWeight(new_name)
    THEN (IF Ndim(tensor) = 2 THEN UnwrapOr(TransposeLast(tensor), tensor) ELSE tensor)
    ELSE tensor

\* One pass of the loop of map_weights, for the entry `name`; HashMap::insert
\* replaces the value of a key that is already present.
AfterMapEntry(c, name) ==
    LET new_name == MapName(name)
    IN IF new_name.some
       THEN [c EXCEPT !.pending = @ \ {name},
                      !.mapped = (new_name.val :> MappedTensor(new_name.val, c.weights[name]))
                                 @@ @]
       ELSE [c EXCEPT !.pending = @ \ {name},
                      !.mapped = (name :> c.weights[name]) @@ @]

MaxWeights == 2

WeightKeys ==
    {<<"transformer", "h", "0", "attn", "c_attn", "weight">>,
     <<"h", "0", "attn", "c_attn", "weight">>,
     <<"blocks", "0", "attn", "c_proj", "weight">>,
     <<"transformer", "h", "0", "mlp", "c_fc", "weight">>,
     <<"transformer", "h", "0", "attn", "c_attn", "bias">>,
     <<"transformer", "wte", "weight">>, <<"wte", "weight">>,
     <<"transformer", "ln_f", "weight">>}

WeightTensors ==
    {Counting(<<2, 3>>), Pattern(<<2, 3>>, 0), Counting(<<3>>), Counting(<<1, 2, 2>>)}

InitMapWeights ==
    /\ \E keys \in {ks \in SUBSET WeightKeys : Cardinality(ks) <= MaxWeights} :
          \E weights \in [keys -> WeightTensors] :
             call = [phase |-> "entries", op |-> "map_weights", weights |-> weights,
                     pending |-> keys, mapped |-> <<>>, result |-> Err("unset")]
    /\ NoObjects

\* One pass of the loop, in any order of the entries.
MapEntry ==
    /\ call.phase = "entries" /\ call.op = "map_weights"
    /\ \E name \in call.pending : call' = AfterMapEntry(call, name)
    /\ UNCHANGED objects

\* Ok(mapped)
ReturnMapped ==
    /\ call.phase = "entries" /\ call.op = "map_weights" /\ call.pending = {}
    /\ call' = [call EXCEPT !.phase = "done", !.result = Ok(call.mapped)]
    /\ UNCHANGED objects

NextMapWeights == MapEntry \/ ReturnMapped

SpecMapWeights == InitMapWeights /\ [][NextMapWeights]_vars

\* out is t with its two dimensions exchanged.
IsTransposeOf(out, t) ==
    /\ out.shape = <<t.shape[2], t.shape[1]>>
    /\ \A i \in 0..(t.shape[1] - 1), j \in 0..(t.shape[2] - 1) :
          Get(out, <<j, i>>) = Get(t, <<i, j>>)

\* The name is that of an attention or MLP projection weight.
NamesProjectionWeight(new_name) ==
    /\ Len(new_name) >= 2
    /\ SubSeq(new_name, Len(new_name) - 1, Len(new_name))
          \in {<<"c_attn", "weight">>, <<"c_proj", "weight">>, <<"c_fc", "weight">>}

\* The claim of C16 for the input entry `name`.
ReturnedAsClaimed(name) ==
    LET t == call.weights[name]
        new_name == MapName(name).val
    IN /\ new_name \in DOMAIN call.result.val
       /\ IF Ndim(t) = 2 /\ NamesProjectionWeight(new_name)
          THEN IsTransposeOf(call.result.val[new_name], t)
          ELSE /\ call.result.val[new_name].shape = t.shape
               /\ ToVec(call.result.val[new_name]) = ToVec(t)

MappedAlone(name) ==
    \A other \in DOMAIN call.weights : MapName(other) = MapName(name) => other = name

PrintableBytes == (33..126) \cup (161..172) \cup (174..255)

\* byte_encoder of bytes_to_unicode, built once: a byte of bs stands for
\* itself, the n-th byte outside bs becomes the character 256 + n.
ByteEncoderMap ==
    [b \in 0..255 |->
        IF b \in PrintableBytes THEN b
        ELSE 256 + Cardinality({x \in 0..(b - 1) : x \notin PrintableBytes})]

\* byte_decoder of bytes_to_unicode: the pairs of byte_encoder, reversed.
ByteDecoderMap ==
    [c \in {ByteEncoderMap[b] : b \in 0..255} |->
        CHOOSE b \in 0..255 : ByteEncoderMap[b] = c]

\* byte_encoder.get(&b), for a byte b
ByteEncoder(b) == ByteEncoderMap[b]

\* byte_decoder.get(&c)
ByteDecoder(c) == IF c \in DOMAIN ByteDecoderMap THEN Some(ByteDecoderMap[c]) ELSE NoneId

\* \p{L}, \p{N} and \s on ASCII.
IsLetter(b) == b \in (65..90) \cup (97..122)

IsNumber(b) == b \in 48..57

IsSpace(b) == b \in (9..13) \cup {32}

IsOther(b) == ~IsLetter(b) /\ ~IsNumber(b) /\ ~IsSpace(b)

\* Length of the longest run of bytes of one class that starts at pos.
RECURSIVE RunLength(_, _, _)
RunLength(text, pos, class) ==
    IF pos > Len(text) THEN 0
    ELSE LET b == text[pos]
             in == CASE class = "L" -> IsLetter(b) [] class = "N" -> IsNumber(b)
                     [] class = "S" -> IsSpace(b) [] OTHER -> IsOther(b)
         IN IF in THEN 1 + RunLength(text, pos + 1, class) ELSE 0

\* The contractions of the pattern, in the order of its alternatives.
Contractions ==
    <<<<39, 115>>, <<39, 116>>, <<39, 114, 101>>, <<39, 118, 101>>, <<39, 109>>,
      <<39, 108, 108>>, <<39, 100>>>>

\* Length of the match of " ?<class>+" at pos, 0 for none.
OptionalSpaceRun(text, pos, class) ==
    IF text[pos] = 32 /\ RunLength(text, pos + 1, class) > 0
    THEN 1 + RunLength(text, pos + 1, class)
    ELSE RunLength(text, pos, class)

\* A pattern without the alternative \s+.
MatchLengthWithoutSpaces(text, pos) ==
    LET contractions == {k \in 1..Len(Contractions) :
                            /\ pos + Len(Contractions[k]) - 1 <= Len(text)
                            /\ SubSeq(text, pos, pos + Len(Contractions[k]) - 1) = Contractions[k]}
    IN IF contractions # {}
       THEN Len(Contractions[CHOOSE k \in contractions : \A m \in contractions : k <= m])
       ELSE IF OptionalSpaceRun(text, pos, "L") > 0 THEN OptionalSpaceRun(text, pos, "L")
       ELSE IF OptionalSpaceRun(text, pos, "N") > 0 THEN OptionalSpaceRun(text, pos, "N")
       ELSE OptionalSpaceRun(text, pos, "O")

\* Length of the match of pat at pos, 0 for none: the first alternative of
\* 's|'t|'re|'ve|'m|'ll|'d| ?\p{L}+| ?\p{N}+| ?[^\s\p{L}\p{N}]+|\s+ that matches.
MatchLength(text, pos) ==
    LET contractions == {k \in 1..Len(Contractions) :
                            /\ pos + Len(Contractions[k]) - 1 <= Len(text)
                            /\ SubSeq(text, pos, pos + Len(Contractions[k]) - 1) = Contractions[k]}
    IN IF contractions # {}
       THEN Len(Contractions[CHOOSE k \in contractions : \A m \in contractions : k <= m])
       ELSE IF OptionalSpaceRun(text, pos, "L") > 0 THEN OptionalSpaceRun(text, pos, "L")
       ELSE IF OptionalSpaceRun(text, pos, "N") > 0 THEN OptionalSpaceRun(text, pos, "N")
       ELSE IF OptionalSpaceRun(text, pos, "O") > 0 THEN OptionalSpaceRun(text, pos, "O")
       ELSE RunLength(text, pos, "S")

\* pat.find_iter(text): the matches from left to right; a byte at which
\* nothing matches is passed over.
RECURSIVE FindIter(_, _)
FindIter(text, pos) ==
    IF pos > Len(text) THEN <<>>
    ELSE IF MatchLength(text, pos) = 0 THEN FindIter(text, pos + 1)
    ELSE <<SubSeq(text, pos, pos + MatchLength(text, pos) - 1)>>
         \o FindIter(text, pos + MatchLength(text, pos))

\* The lowest rank of an adjacent pair of word, -1 for none.
MinRank(bpe_ranks, word) ==
    LET ranked == {i \in 1..(Len(word) - 1) : <<word[i], word[i + 1]>> \in DOMAIN bpe_ranks}
    IN IF ranked = {} THEN -1
       ELSE LET i == CHOOSE i \in ranked :
                        \A j \in ranked :
                            bpe_ranks[<<word[i], word[i + 1]>>] <= bpe_ranks[<<word[j], word[j + 1]>>]
            IN bpe_ranks[<<word[i], word[i + 1]>>]

\* The pair of that rank that comes first in word.
MinPair(bpe_ranks, word) ==
    LET at == {i \in 1..(Len(word) - 1) :
                  /\ <<word[i], word[i + 1]>> \in DOMAIN bpe_ranks
                  /\ bpe_ranks[<<word[i], word[i + 1]>>] = MinRank(bpe_ranks, word)}
        i == CHOOSE i \in at : \A j \in at : i <= j
    IN <<word[i], word[i + 1]>>
\* A merge that steps one symbol on after pushing the merged symbol.
RECURSIVE MergePairSteppingOne(_, _, _, _)
MergePairSteppingOne(word, first, second, i) ==
    IF i > Len(word) THEN <<>>
    ELSE IF i < Len(word) /\ word[i] = first /\ word[i + 1] = second
    THEN <<first \o second>> \o MergePairSteppingOne(word, first, second, i + 1)
    ELSE <<word[i]>> \o MergePairSteppingOne(word, first, second, i + 1)

\* The while loop of bpe: word with every occurrence of the pair merged.
RECURSIVE MergePair(_, _, _, _)
MergePair(word, first, second, i) ==
    IF i > Len(word) THEN <<>>
    ELSE IF i < Len(word) /\ word[i] = first /\ word[i + 1] = second
    THEN <<first \o second>> \o MergePair(word, first, second, i + 2)
    ELSE <<word[i]>> \o MergePair(word, first, second, i + 1)

\* The loop of bpe.
RECURSIVE BpeLoop(_, _)
BpeLoop(bpe_ranks, word) ==
    IF MinRank(bpe_ranks, word) < 0 THEN word
    ELSE IF Len(MergePair(word, MinPair(bpe_ranks, word)[1], MinPair(bpe_ranks, word)[2], 1)) = 1
    THEN MergePair(word, MinPair(bpe_ranks, word)[1], MinPair(bpe_ranks, word)[2], 1)
    ELSE BpeLoop(bpe_ranks,
                 MergePair(word, MinPair(bpe_ranks, word)[1], MinPair(bpe_ranks, word)[2], 1))

\* BpeTokenizer::bpe
Bpe(self, token) ==
    IF token = <<>> THEN <<>>
    ELSE IF Len(token) = 1 THEN <<token>>
    ELSE BpeLoop(self.bpe_ranks, [i \in 1..Len(token) |-> <<token[i]>>])

\* The ids of the tokens that the encoder knows, in order.
RECURSIVE TokenIds(_, _)
TokenIds(self, bpe_tokens) ==
    IF bpe_tokens = <<>> THEN <<>>
    ELSE (IF Head(bpe_tokens) \in DOMAIN self.encoder
          THEN <<self.encoder[Head(bpe_tokens)]>> ELSE <<>>)
         \o TokenIds(self, Tail(bpe_tokens))

\* The loop of encode over the matches.
RECURSIVE EncodeMatches(_, _)
EncodeMatches(self, matches) ==
    IF matches = <<>> THEN <<>>
    ELSE TokenIds(self, Bpe(self, [i \in 1..Len(Head(matches)) |-> ByteEncoder(Head(matches)[i])]))
         \o EncodeMatches(self, Tail(matches))

\* BpeTokenizer::encode
Encode(self, text) == EncodeMatches(self, FindIter(text, 1))

\* The bytes of the characters that byte_decoder knows, in order.
RECURSIVE DecodeChars(_)
DecodeChars(chars) ==
    IF chars = <<>> THEN <<>>
    ELSE (IF ByteDecoder(Head(chars)).some THEN <<ByteDecoder(Head(chars)).val>> ELSE <<>>)
         \o DecodeChars(Tail(chars))

\* BpeTokenizer::decode
RECURSIVE Decode(_, _)
Decode(self, tokens) ==
    IF tokens = <<>> THEN <<>>
    ELSE (IF Head(tokens) \in DOMAIN self.decoder
          THEN DecodeChars(self.decoder[Head(tokens)]) ELSE <<>>)
         \o Decode(self, Tail(tokens))

(***************************************************************************)
(* Texts and tokenizers of the round trip.                                  *)
(***************************************************************************)
MaxTextLen == 3

\* a b space ' s 1
TextBytes == {97, 98, 32, 39, 115, 49}

Word(bytes) == [i \in 1..Len(bytes) |-> ByteEncoder(bytes[i])]

\* A vocabulary with a token for each single byte symbol, its id the byte.
ByteVocabulary == [token \in {<<ByteEncoder(b)>> : b \in 0..255} |-> ByteDecoder(token[1]).val]

Vocabularies ==
    {ByteVocabulary,
     (Word(<<97, 98>>) :> 256) @@ ByteVocabulary,
     (Word(<<97, 98>>) :> 256) @@ (Word(<<97, 98, 97>>) :> 257) @@ ByteVocabulary,
     (Word(<<32, 97>>) :> 256) @@ (Word(<<39, 115>>) :> 257) @@ ByteVocabulary,
     (Word(<<97, 98>>) :> 98) @@ ByteVocabulary,
     [token \in DOMAIN ByteVocabulary \ {Word(<<98>>)} |-> ByteVocabulary[token]]}

MergeTables ==
    {<<>>,
     (<<Word(<<97>>), Word(<<98>>)>> :> 1),
     (<<Word(<<97>>), Word(<<98>>)>> :> 1) @@ (<<Word(<<97, 98>>), Word(<<97>>)>> :> 2),
     (<<Word(<<32>>), Word(<<97>>)>> :> 2) @@ (<<Word(<<39>>), Word(<<115>>)>> :> 1)}

\* decoder of from_strings: for each id a token of that id.
Decoders(encoder) ==
    LET ids == {encoder[token] : token \in DOMAIN encoder}
        tokensOf(id) == {token \in DOMAIN encoder : encoder[token] = id}
        shared == {id \in ids : Cardinality(tokensOf(id)) > 1}
    IN {[id \in ids |-> IF id \in shared THEN choice[id] ELSE CHOOSE t \in tokensOf(id) : TRUE] :
           choice \in {c \in [shared -> UNION {tokensOf(id) : id \in shared}] :
                          \A id \in shared : encoder[c[id]] = id}}

\* BpeTokenizer::from_strings on each vocabulary and merge table.
Tokenizers ==
    UNION {{[encoder |-> encoder, decoder |-> decoder, bpe_ranks |-> bpe_ranks] :
               decoder \in Decoders(encoder), bpe_ranks \in MergeTables} :
           encoder \in Vocabularies}

InitRoundTrip ==
    /\ \E self \in Tokenizers, text \in SeqsUpTo(TextBytes, 0, MaxTextLen) :
          call = [phase |-> "text", op |-> "round_trip", self |-> self,
                  text |-> text, tokens |-> <<>>, decoded |-> <<>>]
    /\ NoObjects

CallEncode ==
    /\ call.phase = "text" /\ call.op = "round_trip"
    /\ call' = [call EXCEPT !.phase = "encoded", !.tokens = Encode(call.self, call.text)]
    /\ UNCHANGED objects

CallDecode ==
    /\ call.phase = "encoded" /\ call.op = "round_trip"
    /\ call' = [call EXCEPT !.phase = "done", !.decoded = Decode(call.self, call.tokens)]
    /\ UNCHANGED objects

NextRoundTrip == CallEncode \/ CallDecode

SpecRoundTrip == InitRoundTrip /\ [][NextRoundTrip]_vars

\* The vocabulary has a token for each single byte symbol.
CoversBytes(self) == \A b \in 0..255 : <<ByteEncoder(b)>> \in DOMAIN self.encoder

\* C17: with a vocabulary that has a token for each single byte symbol, and
\* any merge table, decode(encode(text)) is the ASCII text.
RoundTripRestoresText ==
    (call.phase = "done" /\ call.op = "round_trip" /\ CoversBytes(call.self)) =>
       call.decoded = call.text

\* No two tokens of the vocabulary have the same id.
DistinctIds(self) ==
    Cardinality({self.encoder[token] : token \in DOMAIN self.encoder})
       = Cardinality(DOMAIN self.encoder)

\* The vocabulary has a token for the symbol that each merge produces.
CoversMerges(self) ==
    \A pair \in DOMAIN self.bpe_ranks : pair[1] \o pair[2] \in DOMAIN self.encoder

\* C17, amended: with a vocabulary of distinct ids that has a token for each
\* single byte symbol and for the merged symbol of each pair of the merge
\* table, decode(encode(text)) is the ASCII text.
RoundTripRestoresCoveredText ==
    (call.phase = "done" /\ call.op = "round_trip" /\ CoversBytes(call.self)
       /\ DistinctIds(call.self) /\ CoversMerges(call.self)) =>
       call.decoded = call.text

\* "aba" was merged into one token and decoded again.
RoundTripMergedTwice ==
    /\ call.phase = "done" /\ call.op = "round_trip"
    /\ call.text = <<97, 98, 97>>
    /\ call.tokens = <<257>>
    /\ call.decoded = call.text

(***************************************************************************)
(* Tensor::transpose, once and on its own result.                           *)
(***************************************************************************)
MaxTransposeRank == 3

MaxTransposeDim == 2

InitTranspose ==
    /\ \E shape \in SeqsUpTo(1..MaxTransposeDim, 2, MaxTransposeRank) :
          \E d0, d1 \in (-Len(shape) - 1)..Len(shape) :
             call = [phase |-> "args", op |-> "transpose", t |-> Counting(shape),
                     dim0 |-> d0, dim1 |-> d1,
                     once |-> Err("unset"), twice |-> Err("unset")]
    /\ NoObjects

\* A.transpose(d0, d1)
CallTranspose ==
    /\ call.phase = "args" /\ call.op = "transpose"
    /\ call' = [call EXCEPT !.phase = "once",
                            !.once = Transpose(call.t, call.dim0, call.dim1)]
    /\ UNCHANGED objects

\* A.transpose(d0, d1)?.transpose(d0, d1)
CallTransposeAgain ==
    /\ call.phase = "once" /\ call.op = "transpose"
    /\ call' = [call EXCEPT !.phase = "twice",
                            !.twice = IF call.once.ok
                                      THEN Transpose(call.once.val, call.dim0, call.dim1)
                                      ELSE call.once]
    /\ UNCHANGED objects

NextTranspose == CallTranspose \/ CallTransposeAgain

SpecTranspose == InitTranspose /\ [][NextTranspose]_vars

\* dim is a dimension of a tensor of rank ndim, counted from the front or,
\* when negative, from the back.
ValidDim(dim, ndim) == -ndim <= dim /\ dim < ndim

\* The dimension that dim names, from 0.
FromFront(dim, ndim) == IF dim < 0 THEN dim + ndim ELSE dim

\* The multi-indices of a shape.
MultiIndices(shape) == {Unravel(shape, k - 1) : k \in 1..Numel(shape)}

\* C18: for valid dimensions d0 and d1, a transpose has the sizes of d0 and d1
\* exchanged and the element of A at the multi-index with the two entries
\* exchanged, and the transpose of the transpose has the shape of A and the
\* element of A at every multi-index.
TransposeIsInvolution ==
    (call.op = "transpose" /\ ValidDim(call.dim0, Ndim(call.t))
       /\ ValidDim(call.dim1, Ndim(call.t))) =>
       LET i == FromFront(call.dim0, Ndim(call.t))
           j == FromFront(call.dim1, Ndim(call.t))
       IN /\ call.phase \in {"once", "twice"} =>
                /\ call.once.ok
                /\ call.once.val.shape = Swap(call.t.shape, i, j)
                /\ \A ix \in MultiIndices(call.once.val.shape) :
                      Get(call.once.val, ix) = Get(call.t, Swap(ix, i, j))
          /\ call.phase = "twice" =>
                /\ call.twice.ok
                /\ call.twice.val.shape = call.t.shape
                /\ \A ix \in MultiIndices(call.t.shape) :
                      Get(call.twice.val, ix) = Get(call.t, ix)

\* A 2 x 1 x 2 tensor was transposed twice in its dimensions 0 and -1.
TransposedTwice ==
    /\ call.phase = "twice" /\ call.op = "transpose"
    /\ call.t.shape = <<2, 1, 2>> /\ call.dim0 = 0 /\ call.dim1 = -1
    /\ call.once.ok /\ call.once.val.data # call.t.data
    /\ call.twice.ok /\ call.twice.val.data = call.t.data

(***************************************************************************)
(* top_k_filter and top_p_filter on vectors of probabilities.               *)
(***************************************************************************)
MaxVocab == 4

MaxTopK == 5

\* The vectors of up to MaxVocab entries 0, 0.1 or 0.3, and the vector of
\* test_top_k_filter.
TopKVectors ==
    SeqsUpTo({F(0), <<1, 10>>, <<3, 10>>}, 1, MaxVocab)
    \cup {<<<<1, 10>>, <<3, 10>>, <<1, 5>>, <<2, 5>>>>}

\* The vectors of up to MaxVocab entries 0, 0.3 or 0.5, and the vector of
\* test_top_p_filter.
TopPVectors ==
    SeqsUpTo({F(0), <<3, 10>>, <<1, 2>>}, 1, MaxVocab)
    \cup {<<<<1, 2>>, <<3, 10>>, <<3, 20>>, <<1, 20>>>>}

\* 0, 0.5, 0.85, 1
TopPThresholds == {F(0), <<1, 2>>, <<17, 20>>, F(1)}

InitTopK ==
    /\ \E values \in TopKVectors, k \in 0..MaxTopK :
          call = [phase |-> "args", op |-> "top_k",
                  probs |-> Tensor(values, <<Len(values)>>), k |-> k,
                  result |-> Err("unset")]
    /\ NoObjects

CallTopK ==
    /\ call.phase = "args" /\ call.op = "top_k"
    /\ call' = [call EXCEPT !.phase = "done", !.result = TopKFilter(call.probs, call.k)]
    /\ UNCHANGED objects

NextTopK == CallTopK

SpecTopK == InitTopK /\ [][NextTopK]_vars

InitTopP ==
    /\ \E values \in TopPVectors, p \in TopPThresholds :
          call = [phase |-> "args", op |-> "top_p",
                  probs |-> Tensor(values, <<Len(values)>>), p |-> p,
                  result |-> Err("unset")]
    /\ NoObjects

CallTopP ==
    /\ call.phase = "args" /\ call.op = "top_p"
    /\ call' = [call EXCEPT !.phase = "done", !.result = TopPFilter(call.probs, call.p)]
    /\ UNCHANGED objects

NextTopP == CallTopP

SpecTopP == InitTopP /\ [][NextTopP]_vars

\* out has the value of probs at the indices of kept (from 1) and 0 elsewhere.
KeepsOnly(out, probs, kept) ==
    /\ out.shape = probs.shape
    /\ \A i \in 1..Len(probs.data) :
          out.data[i] = IF i \in kept THEN probs.data[i] ELSE F(0)

\* C19: top_k_filter returns a vector of the same length in which a set of
\* exactly min(k, vocab_size) indices holding the largest probabilities keep
\* their value and every other index is 0.
TopKKeepsLargest ==
    (call.phase = "done" /\ call.op = "top_k") =>
       /\ call.result.ok
       /\ \E kept \in SUBSET (1..Len(call.probs.data)) :
             /\ Cardinality(kept) = Min2(call.k, Len(call.probs.data))
             /\ \A i \in kept, j \in (1..Len(call.probs.data)) \ kept :
                   ~FLt(call.probs.data[i], call.probs.data[j])
             /\ KeepsOnly(call.result.val, call.probs, kept)

\* top_k_filter with k = 2 on [0.1, 0.3, 0.2, 0.4] kept the indices 1 and 3.
TopKKeptTwoOfFour ==
    /\ call.phase = "done" /\ call.op = "top_k" /\ call.k = 2
    /\ call.probs.data = <<<<1, 10>>, <<3, 10>>, <<1, 5>>, <<2, 5>>>>
    /\ call.result.val.data = <<F(0), <<3, 10>>, F(0), <<2, 5>>>>

\* The orders of the indices 1..n.
Orders(n) == {order \in SeqsOfLen(1..n, n) : \A i, j \in 1..n : i # j => order[i] # order[j]}

\* The sum of the first n entries of values in the given order.
RECURSIVE PrefixSum(_, _, _)
PrefixSum(values, order, n) ==
    IF n = 0 THEN F(0) ELSE FAdd(PrefixSum(values, order, n - 1), values[order[n]])

MaxFillRank == 2

MaxFillDim == 2

FillShapes == SeqsUpTo(1..MaxFillDim, 1, MaxFillRank)

\* The mask values, in the order in which a mask's buffer cycles through them.
MaskCycle == <<F(0), F(1), F(0), <<1, 2>>, F(0), F(-1)>>

\* A mask whose buffer starts `seed` places into MaskCycle.
Mask(shape, seed) ==
    Tensor([k \in 1..Numel(shape) |-> MaskCycle[((k - 1 + seed) % Len(MaskCycle)) + 1]], shape)

InitMaskedFill ==
    /\ \E shape \in FillShapes, mask_shape \in FillShapes, seed \in {0, 1, 3, 5},
          value \in {NegInf, F(-5)} :
          call = [phase |-> "args", op |-> "masked_fill", t |-> Counting(shape),
                  mask |-> Mask(mask_shape, seed), value |-> value,
                  result |-> Err("unset")]
    /\ NoObjects

CallMaskedFill ==
    /\ call.phase = "args" /\ call.op = "masked_fill"
    /\ call' = [call EXCEPT !.phase = "done",
                            !.result = MaskedFill(call.t, call.mask, call.value)]
    /\ UNCHANGED objects

NextMaskedFill == CallMaskedFill

SpecMaskedFill == InitMaskedFill /\ [][NextMaskedFill]_vars

\* The element of t that broadcasting to a shape of higher or equal rank puts
\* at the multi-index `indices`: dimensions are aligned from the back and a
\* dimension of size 1 is read at 0.
BroadcastElement(t, indices) ==
    LET offset == Len(indices) - Ndim(t)
    IN ElementAt(t, [i \in 1..Ndim(t) |-> IF t.shape[i] = 1 THEN 0 ELSE indices[offset + i]])

\* C21: masked_fill fails with BroadcastError when the shapes of self and mask
\* do not broadcast, and otherwise returns a tensor of the common shape that
\* holds, at every multi-index, the value where the broadcast mask is not 0
\* and the broadcast element of self where it is 0.
MaskedFillReplacesWhereNonZero ==
    (call.phase = "done" /\ call.op = "masked_fill") =>
       LET common == BroadcastRef(call.t.shape, call.mask.shape)
       IN IF ~common.ok THEN call.result = Err("BroadcastError")
          ELSE /\ call.result.ok
               /\ call.result.val.shape = common.val
               /\ \A indices \in MultiIndices(common.val) :
                     ElementAt(call.result.val, indices) =
                        IF BroadcastElement(call.mask, indices) # F(0) THEN call.value
                        ELSE BroadcastElement(call.t, indices)

\* masked_fill stretched a mask with a negative and a fractional entry over a
\* matrix, and replaced at those entries.
MaskedFillBroadcastNegative ==
    /\ call.phase = "done" /\ call.op = "masked_fill" /\ call.result.ok
    /\ Ndim(call.t) = 2 /\ Ndim(call.mask) = 1
    /\ call.t.shape[1] > 1
    /\ \E k \in 1..Len(call.mask.data) : FLt(call.mask.data[k], F(0))
    /\ \E k \in 1..Len(call.result.val.data) : call.result.val.data[k] = call.value
    /\ \E k \in 1..Len(call.result.val.data) : call.result.val.data[k] # call.value

(***************************************************************************)
(* The 16-bit conversions on every bit pattern.  An f32 is kept here as the *)
(* three fields of its bit pattern, so that every exponent is covered; the  *)
(* arithmetic of the subnormal branch of half_to_f32 is the f32 arithmetic  *)
(* on those fields.                                                         *)
(***************************************************************************)
\* f32::from_bits, as the fields of the pattern.
Bits(sign, exp, frac) == [sign |-> sign, exp |-> exp, frac |-> frac]

\* f32::INFINITY, f32::NEG_INFINITY and f32::NAN (0x7FC00000).
InfinityBits == Bits(0, 255, 0)

NegInfinityBits == Bits(1, 255, 0)

NanBits == Bits(0, 255, 4194304)

\* `n as f32` for 0 < n < 2^24: exact, the leading bit of n is the implicit one.
U16AsF32(n) ==
    Bits(0, 127 + BitLength(n) - 1, (n - Pow2(BitLength(n) - 1)) * Pow2(24 - BitLength(n)))

\* x * 2^k (k < 0: x / 2^-k) for a normal x whose result is normal: exact, the
\* exponent field moves by k.
TimesPow2(x, k) ==
    CASE 1 <= x.exp /\ x.exp <= 254 /\ 1 <= x.exp + k /\ x.exp + k <= 254 ->
           [x EXCEPT !.exp = x.exp + k]

\* Unary minus on an f32.
NegBits(x) == [x EXCEPT !.sign = 1 - x.sign]

\* A conversion that flushes the subnormal half values to zero.
HalfToF32BitsFlushing(half) ==
    LET sign == (half \div 32768) % 2
        exp == (half \div 1024) % 32
        frac == half % 1024
    IN IF exp = 0 THEN Bits(sign, 0, 0)
       ELSE IF exp = 31
       THEN (IF frac = 0 THEN (IF sign = 1 THEN NegInfinityBits ELSE InfinityBits)
             ELSE NanBits)
       ELSE Bits(sign, exp - 15 + 127, frac * 8192)

\* half_to_f32
HalfToF32Bits(half) ==
    LET sign == (half \div 32768) % 2
        exp == (half \div 1024) % 32
        frac == half % 1024
    IN IF exp = 0
       THEN (IF frac = 0 THEN Bits(sign, 0, 0)
             ELSE LET val == TimesPow2(TimesPow2(U16AsF32(frac), -10), -14)
                  IN IF sign = 1 THEN NegBits(val) ELSE val)
       ELSE IF exp = 31
       THEN (IF frac = 0 THEN (IF sign = 1 THEN NegInfinityBits ELSE InfinityBits)
             ELSE NanBits)
       ELSE Bits(sign, exp - 15 + 127, frac * 8192)

\* bf16_to_f32: from_bits((bf16 as u32) << 16)
Bf16ToF32Bits(bf16) == Bits(bf16 \div 32768, (bf16 \div 128) % 256, (bf16 % 128) * 65536)

InitConvert ==
    /\ \E op \in {"half_to_f32", "bf16_to_f32"}, bits \in 0..(Pow2(16) - 1) :
          call = [phase |-> "args", op |-> op, bits |-> bits, result |-> Bits(0, 0, 0)]
    /\ NoObjects

CallHalfToF32 ==
    /\ call.phase = "args" /\ call.op = "half_to_f32"
    /\ call' = [call EXCEPT !.phase = "done", !.result = HalfToF32Bits(call.bits)]
    /\ UNCHANGED objects

CallBf16ToF32 ==
    /\ call.phase = "args" /\ call.op = "bf16_to_f32"
    /\ call' = [call EXCEPT !.phase = "done", !.result = Bf16ToF32Bits(call.bits)]
    /\ UNCHANGED objects

NextConvert == CallHalfToF32 \/ CallBf16ToF32

SpecConvert == InitConvert /\ [][NextConvert]_vars

\* The upper and the lower 16 bits of an f32 pattern.
UpperHalf(x) == x.sign * 32768 + x.exp * 128 + x.frac \div 65536

LowerHalf(x) == x.frac % 65536

\* x is a normal f32 of sign s and magnitude f * 2^-24, 0 < f < 1024:
\* (2^23 + frac) * 2^(exp - 150) = f * 2^-24.
IsHalfSubnormal(x, s, f) ==
    /\ x.sign = s
    /\ 103 <= x.exp /\ x.exp <= 112
    /\ (8388608 + x.frac) % Pow2(126 - x.exp) = 0
    /\ (8388608 + x.frac) \div Pow2(126 - x.exp) = f

\* The pattern of 1.0.
OneBits == Bits(0, 127, 0)

\* C22: bf16_to_f32(b) is the f32 with the bits b << 16; half_to_f32 of sign
\* s, exponent e and fraction f is the f32 with bits s<<31 | (e+112)<<23 |
\* f<<13 for 1 <= e <= 30, the zero of sign s for e = 0 and f = 0, the value
\* (f/1024) * 2^-14 of sign s for e = 0 and f # 0, the infinity of sign s for
\* e = 31 and f = 0, and a NaN for e = 31 and f # 0; bf16 0x3F80 and f16
\* 0x3C00 give 1.0 and f16 0x0000 gives 0.0.
ConversionsAreExact ==
    /\ (call.phase = "done" /\ call.op = "bf16_to_f32") =>
          /\ UpperHalf(call.result) = call.bits /\ LowerHalf(call.result) = 0
          /\ call.bits = 16256 => call.result = OneBits
    /\ (call.phase = "done" /\ call.op = "half_to_f32") =>
          LET s == call.bits \div 32768
              e == (call.bits \div 1024) % 32
              f == call.bits % 1024
          IN /\ (1 <= e /\ e <= 30) => call.result = Bits(s, e + 112, f * 8192)
             /\ (e = 0 /\ f = 0) => call.result = Bits(s, 0, 0)
             /\ (e = 0 /\ f # 0) => IsHalfSubnormal(call.result, s, f)
             /\ (e = 31 /\ f = 0) => call.result = Bits(s, 255, 0)
             /\ (e = 31 /\ f # 0) => call.result.exp = 255 /\ call.result.frac # 0
             /\ call.bits = 15360 => call.result = OneBits
             /\ call.bits = 0 => call.result = Bits(0, 0, 0)

\* half_to_f32 converted the negative subnormal 0x8003 (-3 * 2^-24).
ConvertedNegativeSubnormal ==
    /\ call.phase = "done" /\ call.op = "half_to_f32" /\ call.bits = 32771
    /\ call.result = Bits(1, 104, 4194304)

(***************************************************************************)
(* apply_repetition_penalty on every logits matrix and sequence of ids      *)
(* within the bounds.                                                       *)
(***************************************************************************)
MaxPenaltyVocab == 2

MaxPenaltySeq == 2

MaxPenaltyIds == 4

\* The logits, in the order in which a matrix's buffer cycles through them.
LogitCycle == <<F(-1), F(0), F(2)>>

\* A logits matrix whose buffer starts `seed` places into LogitCycle.
Logits(shape, seed) ==
    Tensor([k \in 1..Numel(shape) |-> LogitCycle[((k - 1 + seed) % Len(LogitCycle)) + 1]],
           shape)

\* Every sequence of ids 0..vocab_size (vocab_size itself is outside the
\* vocabulary) of up to MaxPenaltyIds ids in all.
InitPenalty ==
    /\ \E batch \in 1..MaxBatch, vocab_size \in 1..MaxPenaltyVocab,
          seq_len \in 1..MaxPenaltySeq, penalty \in {F(2), <<1, 2>>},
          seed \in 0..2 :
          /\ batch * seq_len <= MaxPenaltyIds
          /\ \E ids \in SeqsOfLen(0..vocab_size, batch * seq_len) :
                call = [phase |-> "args", op |-> "apply_repetition_penalty",
                        logits |-> Logits(<<batch, vocab_size>>, seed),
                        generated_ids |-> Ids(ids, <<batch, seq_len>>),
                        penalty |-> penalty, result |-> Err("unset")]
    /\ NoObjects

CallApplyRepetitionPenalty ==
    /\ call.phase = "args" /\ call.op = "apply_repetition_penalty"
    /\ call' = [call EXCEPT !.phase = "done",
                   !.result = ApplyRepetitionPenalty(call.logits, call.generated_ids,
                                                     call.penalty)]
    /\ UNCHANGED objects

NextPenalty == CallApplyRepetitionPenalty

SpecPenalty == InitPenalty /\ [][NextPenalty]_vars

\* The token id occurs in row b (from 0) of the sequences.
OccursInRow(generated_ids, b, token_id) ==
    \E t \in 0..(generated_ids.shape[2] - 1) :
       ElementAt(generated_ids, <<b, t>>) = F(token_id)

\* The logit l, penalised once.
Penalised(l, penalty) == IF FGt(l, F(0)) THEN FDiv(l, penalty) ELSE FMul(l, penalty)

\* C23: with a penalty p # 1, the logit l of a token id that occurs in the
\* sequence of its row becomes l/p when l > 0 and l*p otherwise, once however
\* often the id occurs, and every other logit is unchanged.
PenaltyAppliedOncePerId ==
    (call.phase = "done" /\ call.op = "apply_repetition_penalty") =>
       /\ call.result.ok
       /\ call.result.val.shape = call.logits.shape
       /\ \A b \in 0..(call.logits.shape[1] - 1), id \in 0..(call.logits.shape[2] - 1) :
             ElementAt(call.result.val, <<b, id>>) =
                IF OccursInRow(call.generated_ids, b, id)
                THEN Penalised(ElementAt(call.logits, <<b, id>>), call.penalty)
                ELSE ElementAt(call.logits, <<b, id>>)

(***************************************************************************)
(* BpeTokenizer::bpe as a process: BpeBegin is the code before the loop,    *)
(* BpeIterate one pass through the body of `loop`.  call.word is the local  *)
(* `word`, call.result the returned vector.                                 *)
(***************************************************************************)
MaxTokenLen == 4

MaxMergeLines == 2

\* a b
TokenChars == {97, 98}

\* The pairs that the lines of a merges file name.
MergeLinePairs ==
    {<<<<97>>, <<97>>>>, <<<<97>>, <<98>>>>, <<<<98>>, <<97>>>>,
     <<<<97, 98>>, <<97>>>>, <<<<97, 97>>, <<97>>>>, <<<<97, 98>>, <<97, 98>>>>}

\* parse_merges on the lines of a file without a header: the rank of a pair is
\* the number of the last line that names it, from 0.
ParseMerges(lines) ==
    [pair \in {lines[n] : n \in 1..Len(lines)} |->
        (CHOOSE n \in 1..Len(lines) :
            lines[n] = pair /\ \A m \in 1..Len(lines) : lines[m] = pair => m <= n) - 1]

InitBpe ==
    /\ \E lines \in SeqsUpTo(MergeLinePairs, 0, MaxMergeLines),
          token \in SeqsUpTo(TokenChars, 0, MaxTokenLen) :
          call = [phase |-> "start", op |-> "bpe", bpe_ranks |-> ParseMerges(lines),
                  token |-> token, word |-> <<>>, result |-> <<>>]
    /\ NoObjects

\* The code before the loop: the empty token and the token of one character
\* return at once.
BpeBegin ==
    /\ call.phase = "start" /\ call.op = "bpe"
    /\ call' = IF call.token = <<>>
               THEN [call EXCEPT !.phase = "returned", !.result = <<>>]
               ELSE IF Len(call.token) = 1
               THEN [call EXCEPT !.phase = "returned", !.result = <<call.token>>,
                                 !.word = <<call.token>>]
               ELSE [call EXCEPT !.phase = "loop",
                                 !.word = [i \in 1..Len(call.token) |-> <<call.token[i]>>]]
    /\ UNCHANGED objects

\* One pass through the loop: break without a ranked pair, else merge the pair
\* of lowest rank and break when one symbol is left.
BpeIterate ==
    /\ call.phase = "loop" /\ call.op = "bpe"
    /\ call' = IF MinRank(call.bpe_ranks, call.word) < 0
               THEN [call EXCEPT !.phase = "returned", !.result = call.word]
               ELSE LET min_pair == MinPair(call.bpe_ranks, call.word)
                        new_word == MergePair(call.word, min_pair[1], min_pair[2], 1)
                    IN IF Len(new_word) = 1
                       THEN [call EXCEPT !.phase = "returned", !.word = new_word,
                                         !.result = new_word]
                       ELSE [call EXCEPT !.word = new_word]
    /\ UNCHANGED objects

NextBpe == BpeBegin \/ BpeIterate

SpecBpe == InitBpe /\ [][NextBpe]_vars

\* The call runs on: a pass through the loop that can be taken is taken.
FairSpecBpe == SpecBpe /\ WF_vars(NextBpe)

\* The concatenation of the symbols of a word.
RECURSIVE Concatenation(_)
Concatenation(word) == IF word = <<>> THEN <<>> ELSE Head(word) \o Concatenation(Tail(word))

\* The adjacent pairs of word that have a rank.
RankedPairs(bpe_ranks, word) ==
    {<<word[i], word[i + 1]>> : i \in 1..(Len(word) - 1)} \cap DOMAIN bpe_ranks

\* new_word is word with the occurrences of a pair of lowest rank merged: it
\* is shorter, spells the same characters, holds symbols of word and the merged
\* symbol only, and has no occurrence of the pair left.
MergedLowest(bpe_ranks, word, new_word) ==
    \E pair \in RankedPairs(bpe_ranks, word) :
       /\ \A other \in RankedPairs(bpe_ranks, word) : bpe_ranks[pair] <= bpe_ranks[other]
       /\ Len(new_word) < Len(word)
       /\ Concatenation(new_word) = Concatenation(word)
       /\ \A i \in 1..Len(new_word) :
             new_word[i] = pair[1] \o pair[2] \/ \E j \in 1..Len(word) : new_word[i] = word[j]
       /\ \A i \in 1..(Len(new_word) - 1) : <<new_word[i], new_word[i + 1]>> # pair

\* A pass through the loop either returns the word, which has no ranked pair,
\* or merges a pair of lowest rank, and returns when one symbol is left.
IterationMergesLowest ==
    (call.phase = "loop" /\ call' # call) =>
       IF RankedPairs(call.bpe_ranks, call.word) = {}
       THEN call'.phase = "returned" /\ call'.result = call.word
       ELSE /\ MergedLowest(call.bpe_ranks, call.word, call'.word)
            /\ call'.phase = "returned" <=> Len(call'.word) = 1
            /\ call'.phase = "returned" => call'.result = call'.word

\* The returned symbols spell the token, and none of their adjacent pairs has
\* a rank unless one symbol is left.
ReturnedWhenDone ==
    call.phase = "returned" =>
       /\ Concatenation(call.result) = call.token
       /\ RankedPairs(call.bpe_ranks, call.result) = {} \/ Len(call.result) = 1

\* C24: bpe returns for every token and merge table; each pass through its
\* loop merges the occurrences of the adjacent pair of lowest rank, which
\* shortens the word; the loop ends only when no adjacent pair has a rank or
\* one symbol is left; the returned symbols spell the token.
BpeTerminatesMerged ==
    /\ (call.op = "bpe") ~> (call.phase = "returned")
    /\ [](call.op = "bpe" => ReturnedWhenDone)
    /\ [][call.op = "bpe" => IterationMergesLowest]_vars

\* bpe returned "abab" as one symbol, after merging (a, b) twice and then
\* (ab, ab).
BpeMergedInTwoPasses ==
    /\ call.phase = "returned" /\ call.op = "bpe"
    /\ call.token = <<97, 98, 97, 98>>
    /\ call.result = <<<<97, 98, 97, 98>>>>

(***************************************************************************)
(* The constructors and operations of Tensor, run in chains: a constructor  *)
(* makes call.t, every operation replaces it by its result.  An operation   *)
(* that fails returns no tensor and leaves call.t.                          *)
(***************************************************************************)
MaxChain == 2

\* The shapes of the constructed tensors: a scalar, a vector, matrices.
ChainShapes == {<<>>, <<2>>, <<1, 2>>, <<2, 2>>}

\* The sizes of the square matrices, 0 for an empty one.
ChainSizes == {0, 2}

\* Values that rng.gen() and the Box-Muller transform can return.
RandValues == {F(0), <<1, 2>>}

RandnValues == {F(-1), <<1, 2>>}

\* Tensor::rand / Tensor::randn with the values drawn.
Rand(shape, drawn) == Tensor(drawn, shape)

\* Tensor::eye
Eye(n) ==
    Tensor([k \in 1..(n * n) |-> IF (k - 1) % n = (k - 1) \div n THEN F(1) ELSE F(0)],
           <<n, n>>)

\* Tensor::triu
Triu(size) ==
    Tensor([k \in 1..(size * size) |->
               IF (k - 1) % size >= (k - 1) \div size THEN F(1) ELSE F(0)],
           <<size, size>>)

InitChain ==
    /\ call = [phase |-> "empty", op |-> "none", t |-> Zeros(<<>>), chain |-> 0]
    /\ NoObjects

Constructed(op, t) ==
    /\ call.phase = "empty" /\ call.op = "none"
    /\ call' = [call EXCEPT !.phase = "tensor", !.op = op, !.t = t]
    /\ UNCHANGED objects

\* The result r of an operation on call.t.
Returned(op, r) ==
    /\ call' = IF r.ok THEN [call EXCEPT !.op = op, !.t = r.val, !.chain = @ + 1] ELSE call
    /\ UNCHANGED objects

Operand == call.phase = "tensor" /\ call.chain < MaxChain

ConstructFromVec ==
    \E shape \in ChainShapes :
       Constructed("from_vec", FromVec(Pattern(shape, 0).data, shape).val)

ConstructFull ==
    \E shape \in ChainShapes :
       \/ Constructed("zeros", Zeros(shape))
       \/ Constructed("ones", Ones(shape))
       \/ Constructed("full", Full(shape, F(3)))

ConstructRand ==
    \E shape \in ChainShapes :
       \/ \E value \in RandValues :
             Constructed("rand", Rand(shape, [k \in 1..Numel(shape) |-> value]))
       \/ \E value \in RandnValues :
             Constructed("randn", Rand(shape, [k \in 1..Numel(shape) |-> value]))

ConstructTriangle ==
    \E n \in ChainSizes :
       \/ Constructed("eye", Eye(n))
       \/ Constructed("tril", Tril(n))
       \/ Constructed("triu", Triu(n))

ConstructArange ==
    \E end \in ChainSizes, step \in {F(1), <<1, 2>>} :
       /\ Arange(F(0), F(end), step).ok
       /\ Constructed("arange", Arange(F(0), F(end), step).val)

CallSlice ==
    /\ Operand
    /\ \E dim \in {0, -1}, start \in {0, 1} :
          Returned("slice", Slice(call.t, dim, start, 1))

CallSelect ==
    /\ Operand
    /\ \E dim \in {0, -1}, index \in 0..1 : Returned("select", Select(call.t, dim, index))

CallCat ==
    /\ Operand
    /\ \E dim \in {0, -1} : Returned("cat", Cat(<<call.t, call.t>>, dim))

CallPermute ==
    /\ Operand
    /\ \E dims \in {<<0>>, <<0, 1>>, <<1, 0>>} :
          \/ Returned("permute", Permute(call.t, dims))
          \/ Returned("transpose", Transpose(call.t, dims[1], -1))

CallBroadcastTo ==
    /\ Operand
    /\ \E shape \in ChainShapes : Returned("broadcast_to", BroadcastTo(call.t, shape))

CallMaskedFillChain ==
    /\ Operand
    /\ Returned("masked_fill", MaskedFill(call.t, Eye(2), NegInf))

CallReshape ==
    /\ Operand
    /\ \/ \E new_shape \in ChainShapes : Returned("reshape", Reshape(call.t, new_shape))
       \/ \E dim \in {0, -1} : Returned("unsqueeze", Unsqueeze(call.t, dim))
       \/ \E dim \in {0, -1} : Returned("squeeze", Squeeze(call.t, dim))

CallElementwise ==
    /\ Operand
    /\ \/ Returned("add", Add(call.t, call.t))
       \/ Returned("sub", Sub(call.t, Ones(<<1>>)))
       \/ Returned("mul", Mul(call.t, Ones(<<2, 1>>)))
       \/ Returned("div", Div(call.t, Full(<<1>>, F(2))))
       \/ Returned("neg", Ok(Neg(call.t)))
       \/ Returned("mul_scalar", Ok(MulScalar(call.t, F(2))))

CallReduce ==
    /\ Operand
    /\ \E dim \in {0, -1} :
          \/ Returned("sum", Sum(call.t, dim))
          \/ Returned("mean", Mean(call.t, dim))
          \/ Returned("max", Try(Max(call.t, dim), LAMBDA m : Ok(m.values)))
          \/ Returned("argmax", Argmax(call.t, dim))

\* matmul; on an operand with a batch dimension of size 0 the source divides
\* by zero and returns nothing.
CallMatMulChain ==
    /\ Operand
    /\ \A i \in 1..(Ndim(call.t) - 2) : call.t.shape[i] # 0
    /\ \/ Returned("matmul", MatMul(call.t, call.t))
       \/ Returned("matmul", MatMul(call.t, Ones(<<2, 1>>)))

\* softmax, on the tensors whose exponentials the model has: the small
\* integers.
CallSoftmax ==
    /\ Operand
    /\ \A k \in 1..Len(call.t.data) :
          IsFinite(call.t.data[k]) /\ call.t.data[k][2] = 1 /\ Abs(call.t.data[k][1]) <= 4
    /\ \E dim \in {0, -1} : Returned("softmax", Softmax(call.t, dim))

NextChain ==
    \/ ConstructFromVec \/ ConstructFull \/ ConstructRand \/ ConstructTriangle
    \/ ConstructArange \/ CallSlice \/ CallSelect \/ CallCat \/ CallPermute
    \/ CallBroadcastTo \/ CallMaskedFillChain \/ CallReshape \/ CallElementwise
    \/ CallReduce \/ CallMatMulChain \/ CallSoftmax

SpecChain == InitChain /\ [][NextChain]_vars

\* The row-major strides of a shape: 1 for the last dimension, and for every
\* other the stride of the next times the size of the next.
IsRowMajor(strides, shape) ==
    /\ Len(strides) = Len(shape)
    /\ \A i \in 1..Len(shape) :
          strides[i] = IF i = Len(shape) THEN 1 ELSE strides[i + 1] * shape[i + 1]

\* C25: every tensor that a constructor or an operation returns has the
\* row-major strides of its shape, offset 0 and a buffer of numel(shape)
\* elements.
EveryTensorContiguous ==
    call.phase = "tensor" =>
       /\ IsRowMajor(call.t.strides, call.t.shape)
       /\ call.t.offset = 0
       /\ Len(call.t.data) = Product(call.t.shape)
       /\ IsContiguous(call.t)

\* A transposed matrix with two rows and one column was the result of an
\* operation on the result of an operation.
ChainTransposedTwoByOne ==
    /\ call.phase = "tensor" /\ call.chain = 2 /\ call.op = "transpose"
    /\ call.t.shape = <<2, 1>>

(***************************************************************************)
(* Tensor::tril and create_causal_mask for every size, and get on the       *)
(* matrix they return.                                                      *)
(***************************************************************************)
MaxMaskSize == 4

InitMask ==
    /\ \E op \in {"tril", "create_causal_mask"}, n \in 0..MaxMaskSize :
          call = [phase |-> "args", op |-> op, n |-> n, mask |-> Zeros(<<>>),
                  indices |-> <<>>, element |-> Err("unset")]
    /\ NoObjects

CallTril ==
    /\ call.phase = "args" /\ call.op = "tril"
    /\ call' = [call EXCEPT !.phase = "built", !.mask = Tril(call.n)]
    /\ UNCHANGED objects

CallCreateCausalMask ==
    /\ call.phase = "args" /\ call.op = "create_causal_mask"
    /\ call' = [call EXCEPT !.phase = "built", !.mask = CreateCausalMask(call.n)]
    /\ UNCHANGED objects

\* mask.get(&[i, j]), as the tests read the matrix.
CallGetOfMask ==
    /\ call.phase = "built" /\ call.op \in {"tril", "create_causal_mask"}
    /\ \E i \in 0..MaxMaskSize, j \in 0..MaxMaskSize :
          call' = [call EXCEPT !.phase = "read", !.indices = <<i, j>>,
                               !.element = Get(call.mask, <<i, j>>)]
    /\ UNCHANGED objects

NextMask == CallTril \/ CallCreateCausalMask \/ CallGetOfMask

SpecMask == InitMask /\ [][NextMask]_vars

\* The element [i][j] that the claim gives to the matrix of an operation.
MaskElement(op, i, j) ==
    IF op = "tril" THEN (IF j <= i THEN F(1) ELSE F(0))
    ELSE (IF j > i THEN F(1) ELSE F(0))

\* C26: tril(n) is the n by n matrix with 1 at [i][j] when j <= i and 0
\* otherwise, and create_causal_mask(n) the n by n matrix with 1 exactly when
\* j > i; for n = 4 the mask has [0][1] = 1 and [3][0] = [0][0] = [3][3] = 0,
\* and tril(3) has [0][1] = 0 and [1][0] = [2][2] = 1.
MaskHidesFuture ==
    /\ (call.op \in {"tril", "create_causal_mask"} /\ call.phase \in {"built", "read"}) =>
          /\ call.mask.shape = <<call.n, call.n>>
          /\ Len(call.mask.data) = call.n * call.n
          /\ \A i \in 0..(call.n - 1), j \in 0..(call.n - 1) :
                ElementAt(call.mask, <<i, j>>) = MaskElement(call.op, i, j)
    /\ (call.op \in {"tril", "create_causal_mask"} /\ call.phase = "read") =>
          IF call.indices[1] < call.n /\ call.indices[2] < call.n
          THEN call.element = Ok(MaskElement(call.op, call.indices[1], call.indices[2]))
          ELSE ~call.element.ok
    /\ (call.op = "create_causal_mask" /\ call.phase = "read" /\ call.n = 4) =>
          /\ call.indices = <<0, 1>> => call.element = Ok(F(1))
          /\ call.indices \in {<<3, 0>>, <<0, 0>>, <<3, 3>>} => call.element = Ok(F(0))
    /\ (call.op = "tril" /\ call.phase = "read" /\ call.n = 3) =>
          /\ call.indices = <<0, 1>> => call.element = Ok(F(0))
          /\ call.indices \in {<<1, 0>>, <<2, 2>>} => call.element = Ok(F(1))

\* The mask for 4 positions was read at [0][1] and hides position 1 from
\* position 0.
MaskReadFuture ==
    /\ call.phase = "read" /\ call.op = "create_causal_mask" /\ call.n = 4
    /\ call.indices = <<0, 1>> /\ call.element = Ok(F(1))

(***************************************************************************)
(* bytes_to_unicode as a process: PushPrintable is the three loops that     *)
(* fill bs, MapByte one pass of `for b in 0u8..=255u8`, CollectMaps the two  *)
(* collects.  A character is its code point.                                *)
(***************************************************************************)
\* Iterator::collect into a HashMap of the pairs zip(keys, values): a later
\* pair replaces an earlier one of the same key.
CollectMap(keys, values) ==
    [key \in {keys[i] : i \in 1..Len(keys)} |->
        values[CHOOSE i \in 1..Len(keys) :
                  keys[i] = key /\ \A j \in 1..Len(keys) : keys[j] = key => j <= i]]

\* The range a..=b as a vector.
RangeInclusive(a, b) == [i \in 1..(b - a + 1) |-> a + i - 1]

\* A pass that does not count the characters it hands out.
MapByteWithoutCount(s, b) ==
    IF \E i \in 1..Len(s.bs) : s.bs[i] = b THEN s
    ELSE [s EXCEPT !.bs = Append(@, b), !.cs = Append(@, 256 + s.n)]

\* The body of `for b in 0u8..=255u8`.
MapByteBody(s, b) ==
    IF \E i \in 1..Len(s.bs) : s.bs[i] = b THEN s
    ELSE [s EXCEPT !.bs = Append(@, b), !.cs = Append(@, 256 + s.n), !.n = @ + 1]

InitBytesToUnicode ==
    /\ call = [phase |-> "start", op |-> "bytes_to_unicode", bs |-> <<>>, cs |-> <<>>,
               n |-> 0, b |-> 0, byte_encoder |-> <<>>, byte_decoder |-> <<>>]
    /\ NoObjects

PushPrintable ==
    /\ call.phase = "start" /\ call.op = "bytes_to_unicode"
    /\ LET bs == RangeInclusive(33, 126) \o RangeInclusive(161, 172) \o RangeInclusive(174, 255)
       IN call' = [call EXCEPT !.phase = "loop", !.bs = bs, !.cs = bs]
    /\ UNCHANGED objects

MapByte ==
    /\ call.phase = "loop" /\ call.op = "bytes_to_unicode" /\ call.b <= 255
    /\ LET s == MapByteBody([bs |-> call.bs, cs |-> call.cs, n |-> call.n], call.b)
       IN call' = [call EXCEPT !.bs = s.bs, !.cs = s.cs, !.n = s.n, !.b = @ + 1]
    /\ UNCHANGED objects

CollectMaps ==
    /\ call.phase = "loop" /\ call.op = "bytes_to_unicode" /\ call.b > 255
    /\ call' = [call EXCEPT !.phase = "done",
                            !.byte_encoder = CollectMap(call.bs, call.cs),
                            !.byte_decoder = CollectMap(call.cs, call.bs)]
    /\ UNCHANGED objects

NextBytesToUnicode == PushPrintable \/ MapByte \/ CollectMaps

SpecBytesToUnicode == InitBytesToUnicode /\ [][NextBytesToUnicode]_vars

\* '!'..'~', 0xA1..0xAC and 0xAE..0xFF
StandsForItself(b) ==
    (33 <= b /\ b <= 126) \/ (161 <= b /\ b <= 172) \/ (174 <= b /\ b <= 255)

\* C27: byte_encoder and byte_decoder have 256 entries each and are inverses
\* of each other; the bytes '!'..'~', 0xA1..0xAC and 0xAE..0xFF map to the
\* character of their own code point, and the other bytes, in increasing
\* order, to the code points 256, 257, ...
BytesToUnicodeIsBijection ==
    (call.op = "bytes_to_unicode" /\ call.phase = "done") =>
       /\ DOMAIN call.byte_encoder = 0..255
       /\ Cardinality(DOMAIN call.byte_decoder) = 256
       /\ \A b \in 0..255 :
             /\ call.byte_encoder[b] \in DOMAIN call.byte_decoder
             /\ call.byte_decoder[call.byte_encoder[b]] = b
             /\ call.byte_encoder[b] =
                   IF StandsForItself(b) THEN b
                   ELSE 256 + Cardinality({x \in 0..(b - 1) : ~StandsForItself(x)})
       /\ \A c \in DOMAIN call.byte_decoder : call.byte_encoder[call.byte_decoder[c]] = c
       /\ call.byte_encoder = ByteEncoderMap
       /\ call.byte_encoder[97] = 97 /\ call.byte_encoder[90] = 90

\* The tables were collected: the space is the character 288, the last byte
\* that does not stand for itself (0xAD) the character 323.
BytesToUnicodeCollected ==
    /\ call.op = "bytes_to_unicode" /\ call.phase = "done"
    /\ call.byte_encoder[32] = 288
    /\ call.byte_encoder[173] = 323 /\ call.byte_decoder[323] = 173

(***************************************************************************)
(* The end-of-sequence token in batched generation.                         *)
(***************************************************************************)
\* C28: generate on a batch of more than one row with eos_token_id set returns
\* no row that holds eos_token_id at a generated position: the check for the
\* end of the sequence applies to every row.
NoRowContinuesPastEos ==
    (gen.phase = "generate" /\ gen.pc = "done" /\ gen.result.ok
       /\ Ndim(gen.input_ids) = 2 /\ gen.input_ids.shape[1] > 1
       /\ gen.config.eos_token_id.some) =>
       \A b \in 0..(gen.result.val.shape[1] - 1) :
          \A t \in gen.input_ids.shape[2]..(gen.result.val.shape[2] - 1) :
             ElementAt(gen.result.val, <<b, t>>) # F(gen.config.eos_token_id.val)

(***************************************************************************)
(* sample on rows of finite logits.                                         *)
(***************************************************************************)
MaxSampleVocab == 2

\* Rows of up to MaxSampleVocab logits -2, 0 or 2, each a batch of one, and a
\* batch of two rows.
SampleLogits ==
    {Tensor(row, <<1, Len(row)>>) :
        row \in SeqsUpTo({F(-2), F(0), F(2)}, 1, MaxSampleVocab)}
    \cup {Tensor(<<F(0), F(2), F(2), F(-2)>>, <<2, 2>>)}

SampleTemperatures == {F(1), F(2), F(0)}

\* None, 0, 0.5, 0.85, 1
SampleTopP == {NoneF32} \cup {[some |-> TRUE, val |-> p] : p \in TopPThresholds}

\* None and 1 .. MaxTopK
SampleTopK == {NoneId} \cup {[some |-> TRUE, val |-> k] : k \in 1..MaxTopK}

\* rng.gen::<f32>() lies in [0, 1): 0, 0.5, 0.99
SampleDraws == {F(0), <<1, 2>>, <<99, 100>>}

\* The probabilities that sample hands to sample_from_probs for batch row b.
RowProbs(logits, config, b) ==
    Try(Select(logits, 0, b), LAMBDA batch_logits :
    Try(Softmax(IF config.temperature # F(1)
                THEN DivScalar(batch_logits, config.temperature)
                ELSE batch_logits, -1), LAMBDA probs0 :
    Try(IF config.top_k.some THEN TopKFilter(probs0, config.top_k.val) ELSE Ok(probs0),
        LAMBDA probs1 :
    Try(IF config.top_p.some THEN TopPFilter(probs1, config.top_p.val) ELSE Ok(probs1),
        LAMBDA probs2 :
        LET sum == FSum(Iter(probs2))
        IN Ok(IF FGt(sum, F(0)) THEN DivScalar(probs2, sum) ELSE probs2)))))

\* sample_from_probs leaves its loop without returning.
FallbackReached(probs, r) ==
    LET ps == Iter(probs)
    IN \A i \in 1..Len(ps) : ~FLt(r, FSum(SubSeq(ps, 1, i)))

InitSample ==
    /\ \E logits \in SampleLogits, temperature \in SampleTemperatures,
          top_k \in SampleTopK, top_p \in SampleTopP :
       \E rs \in SeqsOfLen(SampleDraws, logits.shape[1]) :
          call = [phase |-> "args", op |-> "sample", logits |-> logits,
                  config |-> [temperature |-> temperature, top_k |-> top_k,
                              top_p |-> top_p, do_sample |-> TRUE],
                  rs |-> rs,
                  probs |-> <<>>, result |-> Err("unset")]
    /\ NoObjects

CallSample ==
    /\ call.phase = "args" /\ call.op = "sample"
    /\ call' = [call EXCEPT
          !.phase = "done",
          !.probs = [n \in 1..call.logits.shape[1] |->
                        RowProbs(call.logits, call.config, n - 1)],
          !.result = Sample(call.logits, call.config, call.rs)]
    /\ UNCHANGED objects

NextSample == CallSample

SpecSample == InitSample /\ [][NextSample]_vars

\* C29: with do_sample set and top_k absent or at least 1, every token that
\* sample draws with r in [0, 1) is an index below vocab_size whose probability
\* after filtering and renormalisation is above zero, and sample_from_probs
\* returns it from inside its loop, never from the fallback to the last token.
SampledTokenHasProbability ==
    (call.phase = "done" /\ call.op = "sample") =>
       /\ call.result.ok
       /\ \A n \in 1..call.logits.shape[1] :
             LET token == call.result.val.data[n][1]
                 probs == call.probs[n].val
             IN /\ call.probs[n].ok
                /\ token \in 0..(call.logits.shape[2] - 1)
                /\ FGt(Iter(probs)[token + 1], F(0))
                /\ ~FallbackReached(probs, call.rs[n])

(***************************************************************************)
(* Checkpoints whose entries have sound fields and a byte range that may    *)
(* not fit the data section or the shape.                                   *)
(***************************************************************************)
\* Pairs <<start, end>> for a data section of 16 bytes: end before start,
\* ranges past the end of the file, ranges of 0, 4, 5, 8 and 16 bytes inside.
RangedOffsets ==
    {<<16, 8>>, <<8, 4>>, <<1, 0>>, <<8, 24>>, <<0, 17>>, <<16, 20>>, <<20, 20>>,
     <<8, 13>>, <<8, 12>>, <<8, 16>>, <<0, 16>>, <<4, 4>>}

RangedShapes == {<<2>>, <<1>>, <<>>, <<2, 2>>, <<0>>}

\* The 8-byte dtypes read the ranges of DataSection that hold such a value.
RangedEntries ==
    {Entry(dtype, shape, offsets[1], offsets[2]) :
        dtype \in {"F32", "F16", "BF16", "I32"}, shape \in RangedShapes,
        offsets \in RangedOffsets}
    \cup {Entry("I64", shape, offsets[1], offsets[2]) :
             shape \in RangedShapes, offsets \in {<<1, 0>>, <<0, 17>>, <<0, 8>>, <<4, 4>>}}
    \cup {Entry("F64", shape, offsets[1], offsets[2]) :
             shape \in RangedShapes, offsets \in {<<16, 8>>, <<8, 24>>, <<8, 16>>, <<20, 20>>}}

\* One entry of RangedEntries, alone or next to a well-formed entry.
RangedHeaders ==
    {JObj([k \in {TensorNames[1]} |-> e]) : e \in RangedEntries}
    \cup {JObj([k \in {TensorNames[1], TensorNames[2]} |->
                  IF k = TensorNames[1] THEN e ELSE Entry("F32", <<2>>, 8, 16)]) :
             e \in RangedEntries}

InitLoadRanged ==
    /\ \E json \in RangedHeaders :
          call = [phase |-> "open", op |-> "load",
                  file |-> File(HeaderLength(json), HeaderLength(json), json, DataSection),
                  pos |-> 0, data_start |-> 0, pending |-> {}, tensors |-> <<>>,
                  result |-> Err("unset")]
    /\ NoObjects

SpecLoadRanged == InitLoadRanged /\ [][NextLoad]_vars

\* An entry with sound fields whose range ends before it starts, ends past
\* the end of the file, or has another length than the shape's elements take.
CorruptEntry(info, data_length) ==
    \/ DeclaredEnd(info) < DeclaredStart(info)
    \/ DeclaredEnd(info) > data_length
    \/ DeclaredEnd(info) - DeclaredStart(info)
          # Numel(DeclaredShape(info)) * ElementSize(Index(info, "dtype").str)

\* C30: loading a checkpoint with a corrupt entry (end < start, a byte range
\* past the end of the file, or a byte count other than numel(shape) times the
\* element size) never panics and returns an error, so no tensor of the file.
CorruptEntryIsAnError ==
    (call.op = "load" /\ call.file.json.kind = "object"
       /\ \E name \in TensorKeys(call.file.json) :
             CorruptEntry(call.file.json.fields[name],
                          Len(call.file.bytes) - 8 - HeaderLen(call.file))) =>
       /\ call.phase # "panicked"
       /\ call.phase = "done" => ~call.result.ok

=============================================================================
